---- MODULE Spec2Model ----
(***************************************************************************)
(* Retrieval pipeline of the pizzeria RAG system: allergen keyword         *)
(* matching (src/src/core/rag_engine.py, src/config/config.py), the        *)
(* per-document vector collections (src/src/core/vector_store.py) and the  *)
(* context assembly / answer composition built on them.                    *)
(*                                                                         *)
(* Text is modelled as a sequence of characters; a character is a          *)
(* one-letter string.  The ligatures of "œuf"/"Œuf" are the characters     *)
(* "oe" and "OE".                                                          *)
(***************************************************************************)
EXTENDS Integers, Sequences, FiniteSets, TLC

VARIABLES
    text,        \* the text handed to the allergen functions
    detected,    \* result of detect_allergens_in_text(text)
    extracted,   \* result of extract_user_allergens_from_question(text)
    tpc,         \* which allergen function has run: "input", "detected", "extracted"
    collections, \* VectorStore.collections: the handles cached by this process
    storage,     \* the collections persisted by the Chroma client
    call,        \* the last operation called on the pipeline, with its inputs
    result       \* what that operation returned

textVars == <<text, detected, extracted, tpc>>

storeVars == <<collections, storage, call, result>>

vars == <<text, detected, extracted, tpc, collections, storage, call, result>>

----------------------------------------------------------------------------
(* Strings *)

UpperCase ==
  <<"A","B","C","D","E","F","G","H","I","J","K","L","M","N","O","P","Q","R",
    "S","T","U","V","W","X","Y","Z","À","È","É","Î","OE">>

LowerCase ==
  <<"a","b","c","d","e","f","g","h","i","j","k","l","m","n","o","p","q","r",
    "s","t","u","v","w","x","y","z","à","è","é","î","oe">>

\* str.lower() on one character
LowerChar(c) ==
  IF \E i \in 1..Len(UpperCase) : UpperCase[i] = c
  THEN LowerCase[CHOOSE i \in 1..Len(UpperCase) : UpperCase[i] = c]
  ELSE c

\* str.lower()
lower(s) == [i \in 1..Len(s) |-> LowerChar(s[i])]

\* Python's `sub in s` on strings
Contains(sub, s) ==
  \/ sub = <<>>
  \/ \E i \in 1..(Len(s) - Len(sub) + 1) :
        /\ s[i] = sub[1]
        /\ SubSeq(s, i, i + Len(sub) - 1) = sub

\* any(p in s for p in patterns)
ContainsAny(patterns, s) == \E j \in 1..Len(patterns) : Contains(patterns[j], s)

----------------------------------------------------------------------------
(* Allergen keyword table: config.py, AllergenConfig.get_allergen_keywords. *)
(* The categories and, inside a category, the keywords are kept in the      *)
(* order of the dictionary literal, which is the order the code iterates.   *)

get_allergen_keywords ==
  <<
    [allergen |-> "Gluten", keywords |-> <<
        <<"g","l","u","t","e","n">>, <<"b","l","é">>, <<"f","r","o","m","e","n","t">>,
        <<"é","p","e","a","u","t","r","e">>, <<"k","a","m","u","t">>,
        <<"s","e","i","g","l","e">>, <<"o","r","g","e">>, <<"a","v","o","i","n","e">>,
        <<"f","a","r","i","n","e">> >>],
    [allergen |-> "Crustacés", keywords |-> <<
        <<"c","r","u","s","t","a","c","é","s">>, <<"c","r","u","s","t","a","c","é">>,
        <<"c","r","e","v","e","t","t","e">>, <<"h","o","m","a","r","d">>,
        <<"c","r","a","b","e">>, <<"l","a","n","g","o","u","s","t","i","n","e">>,
        <<"é","c","r","e","v","i","s","s","e">> >>],
    [allergen |-> "Oeufs", keywords |-> <<
        <<"o","e","u","f">>, <<"oe","u","f">>, <<"o","e","u","f","s">>, <<"oe","u","f","s">>,
        <<"a","l","b","u","m","i","n","e">>,
        <<"l","e","c","i","t","h","i","n","e"," ","d","'","o","e","u","f">> >>],
    [allergen |-> "Poissons", keywords |-> <<
        <<"p","o","i","s","s","o","n">>, <<"p","o","i","s","s","o","n","s">>,
        <<"a","n","c","h","o","i","s">>, <<"t","h","o","n">>, <<"s","a","u","m","o","n">>,
        <<"s","a","r","d","i","n","e">>, <<"c","o","l","i","n">>,
        <<"c","a","b","i","l","l","a","u","d">> >>],
    [allergen |-> "Arachides", keywords |-> <<
        <<"a","r","a","c","h","i","d","e">>, <<"a","r","a","c","h","i","d","e","s">>,
        <<"c","a","c","a","h","u","è","t","e">>, <<"c","a","c","a","h","o","u","è","t","e">>,
        <<"b","e","u","r","r","e"," ","d","e"," ","c","a","c","a","h","u","è","t","e">> >>],
    [allergen |-> "Soja", keywords |-> <<
        <<"s","o","j","a">>, <<"s","a","u","c","e"," ","s","o","j","a">>,
        <<"l","e","c","i","t","h","i","n","e"," ","d","e"," ","s","o","j","a">>,
        <<"p","r","o","t","é","i","n","e"," ","d","e"," ","s","o","j","a">> >>],
    [allergen |-> "Lait", keywords |-> <<
        <<"l","a","i","t">>, <<"c","r","è","m","e">>, <<"b","e","u","r","r","e">>,
        <<"f","r","o","m","a","g","e">>, <<"y","a","o","u","r","t">>,
        <<"l","a","c","t","o","s","e">>, <<"c","a","s","é","i","n","e">>,
        <<"l","a","c","t","o","s","é","r","u","m">> >>],
    [allergen |-> "Fruits à coque", keywords |-> <<
        <<"f","r","u","i","t","s"," ","à"," ","c","o","q","u","e">>,
        <<"a","m","a","n","d","e">>, <<"n","o","i","s","e","t","t","e">>, <<"n","o","i","x">>,
        <<"p","i","s","t","a","c","h","e">>, <<"c","a","j","o","u">>, <<"p","é","c","a","n">>,
        <<"m","a","c","a","d","a","m","i","a">>, <<"p","i","g","n","o","n">> >>],
    [allergen |-> "Céleri", keywords |-> <<
        <<"c","é","l","e","r","i">>, <<"c","é","l","e","r","i","-","r","a","v","e">> >>],
    [allergen |-> "Moutarde", keywords |-> <<
        <<"m","o","u","t","a","r","d","e">>,
        <<"g","r","a","i","n","e","s"," ","d","e"," ","m","o","u","t","a","r","d","e">> >>],
    [allergen |-> "Sésame", keywords |-> <<
        <<"s","é","s","a","m","e">>,
        <<"g","r","a","i","n","e","s"," ","d","e"," ","s","é","s","a","m","e">>,
        <<"h","u","i","l","e"," ","d","e"," ","s","é","s","a","m","e">>,
        <<"t","a","h","i","n","i">> >>],
    [allergen |-> "Sulfites", keywords |-> <<
        <<"s","u","l","f","i","t","e">>, <<"s","u","l","f","i","t","e","s">>,
        <<"a","n","h","y","d","r","i","d","e"," ","s","u","l","f","u","r","e","u","x">>,
        <<"E","2","2","0">>, <<"E","2","2","1">>, <<"E","2","2","2">>, <<"E","2","2","3">>,
        <<"E","2","2","4">>, <<"E","2","2","5">>, <<"E","2","2","6">>, <<"E","2","2","7">>,
        <<"E","2","2","8">> >>],
    [allergen |-> "Lupin", keywords |-> <<
        <<"l","u","p","i","n">>,
        <<"f","a","r","i","n","e"," ","d","e"," ","l","u","p","i","n">> >>],
    [allergen |-> "Mollusques", keywords |-> <<
        <<"m","o","l","l","u","s","q","u","e">>, <<"m","o","l","l","u","s","q","u","e","s">>,
        <<"e","s","c","a","r","g","o","t">>, <<"h","u","î","t","r","e">>,
        <<"m","o","u","l","e">>,
        <<"c","o","q","u","i","l","l","e"," ","s","a","i","n","t","-","j","a","c","q","u","e","s">>,
        <<"c","a","l","m","a","r">>, <<"p","o","u","l","p","e">> >>]
  >>

\* the keys of the table, in iteration order
AllergenCategories == [i \in 1..Len(get_allergen_keywords) |-> get_allergen_keywords[i].allergen]

KeywordsOf(a) ==
  LET i == CHOOSE j \in 1..Len(get_allergen_keywords) : get_allergen_keywords[j].allergen = a
  IN  get_allergen_keywords[i].keywords

----------------------------------------------------------------------------
(* Allergen Analyzer: rag_engine.py *)

\* detect_allergens_in_text: the categories, in table order, one of whose
\* keywords is found in the lower-cased text (the keyword is used as written)
detect_allergens_in_text(t) ==
  IF t = <<>> THEN <<>>
  ELSE LET text_lower == lower(t)
           hit(entry) == ContainsAny(entry.keywords, text_lower)
       IN  [i \in 1..Len(SelectSeq(get_allergen_keywords, hit)) |->
               SelectSeq(get_allergen_keywords, hit)[i].allergen]

\* the indicator words of extract_user_allergens_from_question (lines 432-436)
allergen_context_indicators ==
  << <<"a","l","l","e","r","g","i","q","u","e">>,
     <<"a","l","l","e","r","g","i","e">>,
     <<"a","l","l","e","r","g","i","e","s">>,
     <<"a","l","l","e","r","g","è","n","e">>,
     <<"a","l","l","e","r","g","è","n","e","s">>,
     <<"i","n","t","o","l","e","r","a","n","c","e">>,
     <<"i","n","t","o","l","é","r","a","n","t">>,
     <<"s","a","n","s">>,
     <<"é","v","i","t","e","r">>,
     <<"p","e","u","t"," ","p","a","s"," ","m","a","n","g","e","r">>,
     <<"n","e"," ","p","e","u","x"," ","p","a","s"," ","m","a","n","g","e","r">>,
     <<"n","e"," ","m","a","n","g","e"," ","p","a","s">> >>

\* the explicit negative-association phrases built around one keyword (lines 446-467)
allergen_patterns(keyword) ==
  << <<"a","l","l","e","r","g","i","q","u","e"," ","a","u"," ">> \o keyword,
     <<"a","l","l","e","r","g","i","q","u","e"," ","à"," ">> \o keyword,
     <<"a","l","l","e","r","g","i","q","u","e"," ","a","u","x"," ">> \o keyword,
     <<"a","l","l","e","r","g","i","e"," ","a","u"," ">> \o keyword,
     <<"a","l","l","e","r","g","i","e"," ","à"," ">> \o keyword,
     <<"a","l","l","e","r","g","i","e"," ","a","u","x"," ">> \o keyword,
     <<"p","a","s"," ","d","e"," ">> \o keyword,
     <<"s","a","n","s"," ">> \o keyword,
     <<"é","v","i","t","e","r"," ">> \o keyword,
     <<"n","e"," ","p","e","u","t"," ","p","a","s"," ","m","a","n","g","e","r"," ">> \o keyword,
     <<"n","e"," ","p","e","u","x"," ","p","a","s"," ","m","a","n","g","e","r"," ">> \o keyword,
     <<"n","e"," ","m","a","n","g","e"," ","p","a","s"," ">> \o keyword,
     <<"i","n","t","o","l","é","r","a","n","t"," ","a","u"," ">> \o keyword,
     <<"i","n","t","o","l","é","r","a","n","t"," ","à"," ">> \o keyword,
     <<"i","n","t","o","l","e","r","a","n","c","e"," ","a","u"," ">> \o keyword,
     <<"i","n","t","o","l","e","r","a","n","c","e"," ","à"," ">> \o keyword,
     <<"é","v","i","t","e","r"," ","l","e","s"," ">> \o keyword,
     <<"a","l","l","e","r","g","i","e"," ","a","u","x"," ">> \o keyword,
     <<"p","e","u","t"," ","p","a","s"," ","m","a","n","g","e","r"," ","d","e"," ">> \o keyword,
     <<"n","e"," ","p","e","u","x"," ","p","a","s"," ","m","a","n","g","e","r"," ","d","e"," ">> \o keyword >>

\* the context words of the liberal branch (line 480)
liberal_context_words ==
  << <<"a","l","l","e","r","g","i","q","u","e">>, <<"a","l","l","e","r","g","i","e">>,
     <<"s","a","n","s">>, <<"é","v","i","t","e","r">> >>

\* has_allergen_context (line 438)
has_allergen_context(question_lower) ==
  ContainsAny(allergen_context_indicators, question_lower)

\* One keyword of the loop of lines 443-481: the category is appended when the
\* keyword occurs and either an explicit phrase matches or a liberal context
\* word occurs anywhere in the question.
keyword_selects(keyword, question_lower) ==
  /\ Contains(keyword, question_lower)
  /\ \/ ContainsAny(allergen_patterns(keyword), question_lower)
     \/ ContainsAny(liberal_context_words, question_lower)

\* The mutant of extract_user_allergens_from_question that skips the
\* has_allergen_context guard: every mentioned keyword counts.
extract_without_context_guard(question) ==
  LET question_lower == lower(question)
      sel(entry) == ContainsAny(entry.keywords, question_lower)
  IN  [i \in 1..Len(SelectSeq(get_allergen_keywords, sel)) |->
          SelectSeq(get_allergen_keywords, sel)[i].allergen]

\* extract_user_allergens_from_question: a category is appended once, at the
\* first of its keywords that selects it, so the result lists the selected
\* categories in table order.
extract_user_allergens_from_question(question) ==
  LET question_lower == lower(question)
      sel(entry) == \E k \in 1..Len(entry.keywords) :
                       keyword_selects(entry.keywords[k], question_lower)
  IN  IF has_allergen_context(question_lower)
      THEN [i \in 1..Len(SelectSeq(get_allergen_keywords, sel)) |->
               SelectSeq(get_allergen_keywords, sel)[i].allergen]
      ELSE <<>>

----------------------------------------------------------------------------
(* Company/Document Registry: config.py, ModularConfig.                     *)
(* Two discovered documents, in the order of config.documents; a third     *)
(* name, old_menu, is known to no registry entry.                           *)

None == "None"

Range(s) == { s[i] : i \in 1..Len(s) }

\* config.documents as _init_documents builds it: name and description
documents ==
  << [name |-> "anchor_pizza",
      description |-> <<"A","n","c","h","o","r"," ","P","i","z","z","a"," ","-"," ",
                        "P","i","z","z","e","r","i","a"," ","m","e","n","u"," ",
                        "a","n","d"," ","s","e","r","v","i","c","e","s">>],
     [name |-> "marco_fuso",
      description |-> <<"M","a","r","c","o"," ","F","u","s","o"," ","-"," ",
                        "P","i","z","z","e","r","i","a"," ","m","e","n","u"," ",
                        "a","n","d"," ","s","e","r","v","i","c","e","s">>] >>

\* [doc.name for doc in config.documents]
DocNames == [i \in 1..Len(documents) |-> documents[i].name]

UnknownDoc == "old_menu"

DocUniverse == Range(DocNames) \cup {UnknownDoc}

\* the characters of a document name
DocNameText(d) ==
  CASE d = "anchor_pizza" -> <<"a","n","c","h","o","r","_","p","i","z","z","a">>
    [] d = "marco_fuso"   -> <<"m","a","r","c","o","_","f","u","s","o">>
    [] OTHER              -> <<"o","l","d","_","m","e","n","u">>

\* get_document_by_name raises ValueError unless some entry carries the name
InRegistry(name) == \E i \in 1..Len(documents) : documents[i].name = name

get_document_by_name(name) ==
  documents[CHOOSE i \in 1..Len(documents) : documents[i].name = name]

\* s.split(sep)[0]: the part of s before the first occurrence of sep
SplitHead(s, sep) ==
  IF Contains(sep, s)
  THEN LET i == CHOOSE j \in 1..Len(s) :
                  /\ SubSeq(s, j, j + Len(sep) - 1) = sep
                  /\ \A k \in 1..(j - 1) : SubSeq(s, k, k + Len(sep) - 1) # sep
       IN  SubSeq(s, 1, i - 1)
  ELSE s

IsLetter(c) == c \in Range(UpperCase) \cup Range(LowerCase)

UpperChar(c) ==
  IF \E i \in 1..Len(LowerCase) : LowerCase[i] = c
  THEN UpperCase[CHOOSE i \in 1..Len(LowerCase) : LowerCase[i] = c]
  ELSE c

\* str.title(): a letter that follows a non-letter is upper-cased, any other lower-cased
title(s) ==
  [i \in 1..Len(s) |->
     IF i = 1 \/ ~IsLetter(s[i - 1]) THEN UpperChar(s[i]) ELSE LowerChar(s[i])]

\* str.replace('_', ' ')
ReplaceUnderscore(s) == [i \in 1..Len(s) |-> IF s[i] = "_" THEN " " ELSE s[i]]

\* get_company_name: the description up to " - "; for a name the registry
\* does not know, the cleaned document name
get_company_name(document_name) ==
  IF InRegistry(document_name)
  THEN SplitHead(get_document_by_name(document_name).description, <<" ","-"," ">>)
  ELSE title(ReplaceUnderscore(DocNameText(document_name)))

----------------------------------------------------------------------------
(* Vector Collection Store: vector_store.py.                                *)
(*   storage     the persisted collections of the Chroma client: for each  *)
(*               name whether a collection exists, its identity (uid, a    *)
(*               new one at every creation), whether an earlier run or     *)
(*               this process created it (born), and its chunks.            *)
(*   collections the handles cached by this process (self.collections);    *)
(*               a handle is the uid of the collection it refers to.        *)
(* A store value is the pair of the two; the operators below take a store  *)
(* and return the store they leave behind.                                  *)

NoHandle == 0

\* The chunks add_document has written in earlier runs.  An embedding is a
\* one-dimensional vector; 0 is the zero vector of the embedding fallback.
Corpus(d) ==
  CASE d = "anchor_pizza" ->
         << [id |-> <<d, 1, 0>>, page |-> 1, chunk_index |-> 0, embedding |-> 0,
             content |-> <<"p","i","z","z","a"," ","t","h","o","n">>],
            [id |-> <<d, 1, 1>>, page |-> 1, chunk_index |-> 1, embedding |-> 1,
             content |-> <<"s","a","u","c","e"," ","E","2","2","0">>],
            [id |-> <<d, 2, 0>>, page |-> 2, chunk_index |-> 0, embedding |-> 2,
             content |-> <<"f","a","r","i","n","e">>] >>
    [] d = "marco_fuso" ->
         << [id |-> <<d, 1, 0>>, page |-> 1, chunk_index |-> 0, embedding |-> 1,
             content |-> <<"m","o","z","z","a","r","e","l","l","a"," ","L","A","I","T">>],
            [id |-> <<d, 2, 0>>, page |-> 2, chunk_index |-> 0, embedding |-> 2,
             content |-> <<"b","a","s","i","l","i","c">>] >>
    [] OTHER ->
         << [id |-> <<d, 1, 0>>, page |-> 1, chunk_index |-> 0, embedding |-> 0,
             content |-> <<"f","a","r","i","n","e">>] >>

AbsentCollection == [exists |-> FALSE, uid |-> 0, born |-> "never", items |-> <<>>]

PersistedCollection(d) ==
  [exists |-> TRUE, uid |-> 1, born |-> "earlier", items |-> Corpus(d)]

\* What the backing store may refuse during one call: <<d, "open">> makes
\* client.get_collection and client.create_collection raise for d (the
\* collection cannot be opened or created), <<d, "query">> collection.query.
FaultKinds == {"open", "query"}

FaultSets == {{}} \cup { {<<d, k>>} : d \in DocUniverse, k \in FaultKinds }

\* The mutant of get_or_create_collection that creates without first trying
\* to open: an existing collection is replaced by a new empty one.
get_or_create_always_creates(S, document_name, faults) ==
  IF S.collections[document_name] # NoHandle
  THEN [raised |-> FALSE, handle |-> S.collections[document_name],
        path |-> "cached", store |-> S]
  ELSE IF ~InRegistry(document_name) \/ <<document_name, "open">> \in faults
  THEN [raised |-> TRUE, handle |-> NoHandle, path |-> "failed", store |-> S]
  ELSE LET uid == S.storage[document_name].uid + 1
       IN  [raised |-> FALSE, handle |-> uid, path |-> "created",
            store |-> [collections |-> [S.collections EXCEPT ![document_name] = uid],
                       storage |-> [S.storage EXCEPT ![document_name] =
                                      [exists |-> TRUE, uid |-> uid, born |-> "now",
                                       items |-> <<>>]]]]

\* The mutant of get_or_create_collection that, when the persisted
\* collection cannot be opened, deletes it and creates it anew, empty
get_or_create_resets_on_failure(S, document_name, faults) ==
  IF S.collections[document_name] # NoHandle
  THEN [raised |-> FALSE, handle |-> S.collections[document_name],
        path |-> "cached", store |-> S]
  ELSE IF S.storage[document_name].exists /\ <<document_name, "open">> \notin faults
  THEN [raised |-> FALSE, handle |-> S.storage[document_name].uid, path |-> "opened",
        store |-> [S EXCEPT !.collections[document_name] = S.storage[document_name].uid]]
  ELSE IF ~InRegistry(document_name)
  THEN [raised |-> TRUE, handle |-> NoHandle, path |-> "failed", store |-> S]
  ELSE LET uid == S.storage[document_name].uid + 1
       IN  [raised |-> FALSE, handle |-> uid, path |-> "created",
            store |-> [collections |-> [S.collections EXCEPT ![document_name] = uid],
                       storage |-> [S.storage EXCEPT ![document_name] =
                                      [exists |-> TRUE, uid |-> uid, born |-> "now",
                                       items |-> <<>>]]]]

\* get_or_create_collection (lines 112-140)
get_or_create_collection(S, document_name, faults) ==
  IF S.collections[document_name] # NoHandle
  THEN \* line 112: cached handle
       [raised |-> FALSE, handle |-> S.collections[document_name],
        path |-> "cached", store |-> S]
  ELSE IF S.storage[document_name].exists /\ <<document_name, "open">> \notin faults
  THEN \* line 119: the persisted collection is opened
       [raised |-> FALSE, handle |-> S.storage[document_name].uid, path |-> "opened",
        store |-> [S EXCEPT !.collections[document_name] = S.storage[document_name].uid]]
  ELSE IF \/ ~InRegistry(document_name)               \* line 124 raises ValueError
          \/ S.storage[document_name].exists           \* create_collection: name taken
          \/ <<document_name, "open">> \in faults    \* create_collection fails
  THEN \* line 137: "Could not create or access collection"
       [raised |-> TRUE, handle |-> NoHandle, path |-> "failed", store |-> S]
  ELSE \* line 125: a new empty collection
       LET uid == S.storage[document_name].uid + 1
       IN  [raised |-> FALSE, handle |-> uid, path |-> "created",
            store |-> [collections |-> [S.collections EXCEPT ![document_name] = uid],
                       storage |-> [S.storage EXCEPT ![document_name] =
                                      [exists |-> TRUE, uid |-> uid, born |-> "now",
                                       items |-> <<>>]]]]

----------------------------------------------------------------------------
(* VectorStore.search (vector_store.py, lines 217-283) *)

MaxEmb == 1

\* What ollama.embeddings does for one text: a vector, or an exception
EmbedOutcomes ==
  { [raised |-> FALSE, vector |-> v] : v \in 0..MaxEmb } \cup { [raised |-> TRUE, vector |-> 0] }

\* _generate_ollama_embedding (lines 51-57): the zero vector when the client raises
generate_ollama_embedding(outcome) ==
  IF outcome.raised THEN 0 ELSE outcome.vector

\* The document selection a caller passes: None, one name, or a list of names
NoDocuments == [kind |-> "none", ids |-> <<>>]

OneDocument(d) == [kind |-> "str", ids |-> <<d>>]

DocumentList(l) == [kind |-> "list", ids |-> l]

DocSelections ==
  {NoDocuments} \cup { OneDocument(d) : d \in DocUniverse }
                \cup { DocumentList(<<>>), DocumentList(DocNames) }

\* lines 236-242
search_documents(document_names) ==
  IF document_names.kind = "none" THEN DocNames ELSE document_names.ids

\* squared L2 distance, the default space of a Chroma collection
Distance(query_embedding, chunk) ==
  (query_embedding - chunk.embedding) * (query_embedding - chunk.embedding)

\* x placed after every element of the sorted sequence s whose distance is
\* not greater: equal distances keep their order (list.sort is stable)
InsertByDistance(x, s) ==
  LET before == SelectSeq(s, LAMBDA y : y.distance <= x.distance)
      after  == SelectSeq(s, LAMBDA y : y.distance > x.distance)
  IN  before \o <<x>> \o after

RECURSIVE sort_by_distance(_)
sort_by_distance(s) ==
  IF s = <<>> THEN <<>>
  ELSE InsertByDistance(s[Len(s)], sort_by_distance(SubSeq(s, 1, Len(s) - 1)))

\* s[:n] for n >= 0
Take(s, n) == SubSeq(s, 1, IF n < Len(s) THEN n ELSE Len(s))

\* one hit, as lines 259-264 format it
Hit(chunk, doc_name, query_embedding) ==
  [content |-> chunk.content,
   metadata |-> [page |-> chunk.page, chunk_index |-> chunk.chunk_index,
                 document_name |-> chunk.id[1]],
   distance |-> Distance(query_embedding, chunk),
   document_name |-> doc_name]

\* collection.query(query_embeddings=[e], n_results=n): the n nearest chunks
\* of the collection, nearest first (chunks at the same distance in the order
\* they were stored); fewer when the collection holds fewer.
\* It raises for n <= 0 and when the store refuses the query.
QueryRaises(doc_name, n_results, faults) ==
  n_results <= 0 \/ <<doc_name, "query">> \in faults

collection_query(items, doc_name, query_embedding, n_results) ==
  Take(sort_by_distance([i \in 1..Len(items) |-> Hit(items[i], doc_name, query_embedding)]),
       n_results)

\* The items a handle reads: those of the collection it refers to
HandleValid(S, doc_name, handle) ==
  S.storage[doc_name].exists /\ S.storage[doc_name].uid = handle

\* The mutant of search_collections in which the first failing collection
\* ends the loop: the collections after it are not searched.
search_collections_abort_on_failure(S, docs, query_embedding, n_results, faults) ==
  LET F[i \in 0..Len(docs)] ==
        IF i = 0 THEN [store |-> S, hits |-> <<>>, warnings |-> <<>>]
        ELSE LET prev == F[i - 1]
                 got  == get_or_create_collection(prev.store, docs[i], faults)
                 failed == \/ got.raised
                           \/ ~HandleValid(got.store, docs[i], got.handle)
                           \/ QueryRaises(docs[i], n_results, faults)
             IN  IF prev.warnings # <<>> THEN prev
                 ELSE IF failed
                 THEN [store |-> got.store, hits |-> prev.hits,
                       warnings |-> Append(prev.warnings, docs[i])]
                 ELSE [store |-> got.store, warnings |-> prev.warnings,
                       hits |-> prev.hits \o
                                collection_query(got.store.storage[docs[i]].items,
                                                 docs[i], query_embedding, n_results)]
  IN  F[Len(docs)]

\* The loop of lines 247-269 over search_documents: per document the handle,
\* the query and the formatted hits; an exception for one document is logged
\* (warnings) and the loop continues with the next.
search_collections(S, docs, query_embedding, n_results, faults) ==
  LET F[i \in 0..Len(docs)] ==
        IF i = 0 THEN [store |-> S, hits |-> <<>>, warnings |-> <<>>]
        ELSE LET prev == F[i - 1]
                 got  == get_or_create_collection(prev.store, docs[i], faults)
                 failed == \/ got.raised
                           \/ ~HandleValid(got.store, docs[i], got.handle)
                           \/ QueryRaises(docs[i], n_results, faults)
             IN  IF failed
                 THEN [store |-> got.store, hits |-> prev.hits,
                       warnings |-> Append(prev.warnings, docs[i])]
                 ELSE [store |-> got.store, warnings |-> prev.warnings,
                       hits |-> prev.hits \o
                                collection_query(got.store.storage[docs[i]].items,
                                                 docs[i], query_embedding, n_results)]
  IN  F[Len(docs)]

\* all_results[:n_results] (line 273), also for a negative n_results
Truncate(s, n_results) ==
  IF n_results >= 0 THEN Take(s, n_results)
  ELSE SubSeq(s, 1, IF Len(s) + n_results > 0 THEN Len(s) + n_results ELSE 0)

\* The mutant of search that leaves out the sort of line 272
search_without_sort(S, embed_outcome, document_names, n_results, faults) ==
  LET query_embedding == generate_ollama_embedding(embed_outcome)
      docs   == search_documents(document_names)
      looped == search_collections(S, docs, query_embedding, n_results, faults)
  IN  [searched_documents |-> docs,
       results  |-> Truncate(looped.hits, n_results),
       warnings |-> looped.warnings,
       store    |-> looped.store]

\* The mutant of search that cuts the merged list to n_results before
\* sorting it: the hits of the collections searched last are lost whatever
\* their distance
search_truncate_then_sort(S, embed_outcome, document_names, n_results, faults) ==
  LET query_embedding == generate_ollama_embedding(embed_outcome)
      docs   == search_documents(document_names)
      looped == search_collections(S, docs, query_embedding, n_results, faults)
  IN  [searched_documents |-> docs,
       results  |-> sort_by_distance(Truncate(looped.hits, n_results)),
       warnings |-> looped.warnings,
       store    |-> looped.store]

\* search (lines 231-279)
search(S, embed_outcome, document_names, n_results, faults) ==
  LET query_embedding == generate_ollama_embedding(embed_outcome)
      docs   == search_documents(document_names)
      looped == search_collections(S, docs, query_embedding, n_results, faults)
  IN  [searched_documents |-> docs,
       results  |-> Truncate(sort_by_distance(looped.hits), n_results),
       warnings |-> looped.warnings,
       store    |-> looped.store]

----------------------------------------------------------------------------
(* Retrieval Aggregator: LLMInterface.get_context (rag_engine.py, 50-109).  *)
(* context_by_company is a dictionary in insertion order: a sequence of    *)
(* groups [company, contexts].                                              *)

Digits == <<"0","1","2","3","4","5","6","7","8","9">>

\* str(page) for a one-digit page number
PageText(p) == <<Digits[p + 1]>>

\* f"[Page {metadata.get('page', 'N/A')}] {content}" (line 96)
FormatContext(hit) ==
  <<"[","P","a","g","e"," ">> \o PageText(hit.metadata.page) \o <<"]"," ">> \o hit.content

\* get_company_name, tabulated over the document names
CompanyNames == [d \in DocUniverse |-> get_company_name(d)]

Max(a, b) == IF a >= b THEN a ELSE b

\* line 65
search_limit(document_names, max_chunks) ==
  IF document_names.kind = "none" THEN max_chunks * 2 ELSE max_chunks

\* line 73
max_per_company(document_names, max_chunks) ==
  IF document_names.kind = "none" THEN Max(2, max_chunks \div 2) ELSE max_chunks

HasGroup(groups, company) == \E g \in 1..Len(groups) : groups[g].company = company

\* company_counts[company]: the snippets kept so far for the company
CompanyCount(groups, company) ==
  IF HasGroup(groups, company)
  THEN Len(groups[CHOOSE g \in 1..Len(groups) : groups[g].company = company].contexts)
  ELSE 0

\* context_by_company[company].append(part), the group created when missing
AppendContext(groups, company, part) ==
  IF HasGroup(groups, company)
  THEN [g \in 1..Len(groups) |->
          IF groups[g].company = company
          THEN [groups[g] EXCEPT !.contexts = Append(@, part)]
          ELSE groups[g]]
  ELSE Append(groups, [company |-> company, contexts |-> <<part>>])

RECURSIVE SumLen(_)
SumLen(groups) ==
  IF groups = <<>> THEN 0 ELSE Len(Head(groups).contexts) + SumLen(Tail(groups))

\* sum(len(contexts) for contexts in context_by_company.values())
TotalSnippets(groups) == SumLen(groups)

\* The mutant of context_loop that stops on `>` instead of `>=`: one snippet
\* too many is kept.
RECURSIVE context_loop_late_stop(_, _, _, _, _)
context_loop_late_stop(results, i, acc, cap, max_chunks) ==
  IF i > Len(results) THEN acc
  ELSE LET hit      == results[i]
           doc_name == hit.document_name
           used     == IF doc_name \in Range(acc.documents_used)
                       THEN acc.documents_used
                       ELSE Append(acc.documents_used, doc_name)
           company_name == CompanyNames[doc_name]
       IN  IF CompanyCount(acc.context_by_company, company_name) >= cap
           THEN context_loop_late_stop(results, i + 1,
                     [acc EXCEPT !.documents_used = used], cap, max_chunks)
           ELSE LET groups == AppendContext(acc.context_by_company, company_name,
                                            FormatContext(hit))
                    next   == [context_by_company |-> groups, documents_used |-> used]
                IN  IF TotalSnippets(groups) > max_chunks
                    THEN next
                    ELSE context_loop_late_stop(results, i + 1, next, cap, max_chunks)

\* The mutant of context_loop that leaves the loop at the first hit of a
\* company at its cap (break for continue): the hits after it are lost.
RECURSIVE context_loop_stops_at_cap(_, _, _, _, _)
context_loop_stops_at_cap(results, i, acc, cap, max_chunks) ==
  IF i > Len(results) THEN acc
  ELSE LET hit      == results[i]
           doc_name == hit.document_name
           used     == IF doc_name \in Range(acc.documents_used)
                       THEN acc.documents_used
                       ELSE Append(acc.documents_used, doc_name)
           company_name == CompanyNames[doc_name]
       IN  IF CompanyCount(acc.context_by_company, company_name) >= cap
           THEN [acc EXCEPT !.documents_used = used]
           ELSE LET groups == AppendContext(acc.context_by_company, company_name,
                                            FormatContext(hit))
                    next   == [context_by_company |-> groups, documents_used |-> used]
                IN  IF TotalSnippets(groups) >= max_chunks
                    THEN next
                    ELSE context_loop_stops_at_cap(results, i + 1, next, cap, max_chunks)

\* The loop of lines 75-103 from result i on
RECURSIVE context_loop(_, _, _, _, _)
context_loop(results, i, acc, cap, max_chunks) ==
  IF i > Len(results) THEN acc
  ELSE LET hit      == results[i]
           doc_name == hit.document_name
           used     == IF doc_name \in Range(acc.documents_used)
                       THEN acc.documents_used
                       ELSE Append(acc.documents_used, doc_name)
           company_name == CompanyNames[doc_name]
       IN  IF CompanyCount(acc.context_by_company, company_name) >= cap
           THEN \* line 91: continue
                context_loop(results, i + 1,
                             [acc EXCEPT !.documents_used = used], cap, max_chunks)
           ELSE LET groups == AppendContext(acc.context_by_company, company_name,
                                            FormatContext(hit))
                    next   == [context_by_company |-> groups, documents_used |-> used]
                IN  IF TotalSnippets(groups) >= max_chunks
                    THEN next                                   \* line 103: break
                    ELSE context_loop(results, i + 1, next, cap, max_chunks)

\* get_context; searched is the list of collections its search targeted
get_context(S, embed_outcome, document_names, max_chunks, faults) ==
  LET found == search(S, embed_outcome, document_names,
                      search_limit(document_names, max_chunks), faults)
      built == context_loop(found.results, 1,
                            [context_by_company |-> <<>>, documents_used |-> <<>>],
                            max_per_company(document_names, max_chunks), max_chunks)
  IN  [context_by_company |-> built.context_by_company,
       documents_used |-> built.documents_used,
       has_multiple_companies |-> Len(built.context_by_company) > 1,
       searched |-> found.searched_documents,
       store |-> found.store]

----------------------------------------------------------------------------
(* Company detection: LLMInterface._detect_company_in_query (111-160) *)

\* str.split(): the words between runs of spaces
RECURSIVE SplitWords(_)
SplitWords(s) ==
  IF s = <<>> THEN <<>>
  ELSE IF Head(s) = " " THEN SplitWords(Tail(s))
  ELSE LET n == IF \E i \in 1..Len(s) : s[i] = " "
                THEN (CHOOSE i \in 1..Len(s) :
                        s[i] = " " /\ \A j \in 1..(i - 1) : s[j] # " ") - 1
                ELSE Len(s)
       IN  <<SubSeq(s, 1, n)>> \o SplitWords(SubSeq(s, n + 1, Len(s)))

\* lines 131-139
explicit_patterns(company_name) ==
  << <<"c","h","e","z"," ">> \o company_name,
     <<"à"," ">> \o company_name,
     company_name \o <<" ","a","-","t","-","i","l">>,
     company_name \o <<" ","a","v","e","z","-","v","o","u","s">>,
     company_name \o <<" ","p","r","o","p","o","s","e">>,
     <<"r","e","s","t","a","u","r","a","n","t"," ">> \o company_name,
     <<"p","i","z","z","e","r","i","a"," ">> \o company_name >>

\* lines 150-155
company_indicators(part) ==
  << part \o <<" ","p","i","z","z","a">>,
     part \o <<" ","r","e","s","t","a","u","r","a","n","t">>,
     <<"c","h","e","z"," ">> \o part,
     <<"p","i","z","z","e","r","i","a"," ">> \o part >>

\* the body of the loop of line 125 for one document: does it return doc.name
DocumentMentioned(doc_name, query_lower) ==
  LET company_name == lower(get_company_name(doc_name))
      parts == SplitWords(company_name)
  IN  \/ ContainsAny(explicit_patterns(company_name), query_lower)
      \/ \E p \in 1..Len(parts) :
            /\ Len(parts[p]) > 4
            /\ ContainsAny(company_indicators(parts[p]), query_lower)

\* _detect_company_in_query: the first document of the registry that is
\* mentioned, else None
detect_company_in_query(query) ==
  LET query_lower == lower(query)
      mentioned == { i \in 1..Len(documents) : DocumentMentioned(documents[i].name, query_lower) }
  IN  IF mentioned = {} THEN None
      ELSE documents[CHOOSE i \in mentioned : \A j \in mentioned : i <= j].name

----------------------------------------------------------------------------
(* Allergen annotation of a context: get_allergen_info_for_context (576-590) *)
(* and suggest_alternatives_for_allergens (592-612).                          *)

\* the snippets get_context can build from the stored chunks
Snippets ==
  UNION { { FormatContext(Hit(Corpus(d)[i], d, 0)) : i \in 1..Len(Corpus(d)) } : d \in DocUniverse }

\* detect_allergens_in_text, tabulated over the snippets
SnippetAllergens == [s \in Snippets |-> Range(detect_allergens_in_text(s))]

\* sorted(list(company_allergens)): the categories found in the snippets of
\* one group, as a set
GroupAllergens(group) ==
  UNION { SnippetAllergens[group.contexts[c]] : c \in 1..Len(group.contexts) }

\* allergen_info, in the order of the groups
get_allergen_info_for_context(context_by_company) ==
  [g \in 1..Len(context_by_company) |->
     [company |-> context_by_company[g].company,
      allergens |-> GroupAllergens(context_by_company[g])]]

\* The mutant of suggest_alternatives_for_allergens whose warning lists all of
\* the user's allergens once one of them is found in the group
suggest_alternatives_lists_all(user_allergens, context_by_company) ==
  IF user_allergens = <<>> THEN <<>>
  ELSE LET allergen_info == get_allergen_info_for_context(context_by_company)
       IN  [g \in 1..Len(allergen_info) |->
              [company |-> allergen_info[g].company,
               conflicting |->
                 IF \E i \in 1..Len(user_allergens) :
                       user_allergens[i] \in allergen_info[g].allergens
                 THEN user_allergens ELSE <<>>]]

\* one line per group: compatible, or the user's allergens found in the group
suggest_alternatives_for_allergens(user_allergens, context_by_company) ==
  IF user_allergens = <<>> THEN <<>>
  ELSE LET allergen_info == get_allergen_info_for_context(context_by_company)
       IN  [g \in 1..Len(allergen_info) |->
              [company |-> allergen_info[g].company,
               conflicting |-> SelectSeq(user_allergens,
                                  LAMBDA a : a \in allergen_info[g].allergens)]]

----------------------------------------------------------------------------
(* Answer Composer: create_prompt, query_llm, _fallback_response and       *)
(* answer_question (rag_engine.py, 162-412).                                *)
(* An answer text is the sequence of its parts, in the order the code      *)
(* concatenates them: the model's reply or the fallback text, the allergen *)
(* summary, the compatibility analysis; or the error sentence.              *)

DefaultMaxChunks == 5

FallbackMaxChunks == 2

\* What ollama.chat does for one prompt: a reply, or an exception
LLMReplies == {"reply"}

ChatOutcomes ==
  { [raised |-> FALSE, content |-> r] : r \in LLMReplies }
     \cup { [raised |-> TRUE, content |-> "connection refused"] }

\* user_allergens as the caller passes it: None, or a list of categories
NoAllergens == [given |-> FALSE, list |-> <<>>]

AllergenArgs ==
  {NoAllergens} \cup { [given |-> TRUE, list |-> l] : l \in {<<>>, <<"Lait">>} }

\* the questions put to answer_question
SampleQuestions ==
  { <<"v","o","s"," ","p","i","z","z","a","s">>,
    <<"C","h","e","z"," ","M","a","r","c","o"," ","F","u","s","o"," ",
      "s","a","n","s"," ","g","l","u","t","e","n">>,
    <<"a","l","l","e","r","g","i","q","u","e"," ","a","u"," ","l","a","i","t">> }

\* extract_user_allergens_from_question and _detect_company_in_query,
\* tabulated over the questions
QuestionAllergens == [q \in SampleQuestions |-> extract_user_allergens_from_question(q)]

QuestionCompany == [q \in SampleQuestions |-> detect_company_in_query(q)]

\* create_prompt: what the prompt text is built from.  The warning line
\* names the allergens extracted from the question (line 218).
create_prompt(user_question, context_data) ==
  [question |-> user_question,
   has_multiple_companies |-> context_data.has_multiple_companies,
   context_by_company |-> context_data.context_by_company,
   allergen_info |-> get_allergen_info_for_context(context_data.context_by_company),
   warning |-> QuestionAllergens[user_question]]

\* The mutant of fallback_response in which a failure of the embedding call
\* is not absorbed: the exception leaves the handler of query_llm.
fallback_response_unguarded(S, prompt, embed_outcome, faults) ==
  LET context_data == get_context(S, embed_outcome, NoDocuments, FallbackMaxChunks, faults)
  IN  [raised |-> embed_outcome.raised, exc |-> "embedding failed",
       answer |-> << [kind |-> "fallback", quoted |-> context_data.context_by_company] >>,
       searched |-> context_data.searched,
       prompt |-> prompt, chat_calls |-> 0,
       store |-> context_data.store]

\* _fallback_response (lines 312-329): a new retrieval over all documents
\* with max_chunks=2; the text quotes str(context_by_company), or the
\* nothing-found sentence when it is empty.  It makes no call of
\* ollama.chat: chat_calls counts the calls made, prompt is the prompt
\* query_llm was given.
fallback_response(S, prompt, embed_outcome, faults) ==
  LET context_data == get_context(S, embed_outcome, NoDocuments, FallbackMaxChunks, faults)
  IN  [raised |-> FALSE, exc |-> None,
       answer |-> << [kind |-> "fallback", quoted |-> context_data.context_by_company] >>,
       searched |-> context_data.searched,
       prompt |-> prompt, chat_calls |-> 0,
       store |-> context_data.store]

\* The mutant of query_llm without the try/except around ollama.chat
query_llm_uncaught(S, prompt, chat_outcome, embed_outcome, faults) ==
  IF ~chat_outcome.raised
  THEN [raised |-> FALSE, exc |-> None,
        answer |-> << [kind |-> "llm", text |-> chat_outcome.content] >>,
        searched |-> <<>>, prompt |-> prompt, chat_calls |-> 1, store |-> S]
  ELSE [raised |-> TRUE, exc |-> chat_outcome.content,
        answer |-> <<>>, searched |-> <<>>, prompt |-> prompt, chat_calls |-> 1, store |-> S]

\* The mutant of query_llm that calls ollama.chat a second time when the
\* first call raised, and falls back only when the second raises too
query_llm_retries(S, prompt, chat_outcome, embed_outcome, faults) ==
  IF ~chat_outcome.raised
  THEN [raised |-> FALSE, exc |-> None,
        answer |-> << [kind |-> "llm", text |-> chat_outcome.content] >>,
        searched |-> <<>>, prompt |-> prompt, chat_calls |-> 1, store |-> S]
  ELSE [fallback_response(S, prompt, embed_outcome, faults) EXCEPT !.chat_calls = @ + 2]

\* query_llm (lines 275-299): one call of ollama.chat (line 276); when it
\* raises, the handler of line 297 returns _fallback_response(prompt)
query_llm(S, prompt, chat_outcome, embed_outcome, faults) ==
  IF ~chat_outcome.raised
  THEN [raised |-> FALSE, exc |-> None,
        answer |-> << [kind |-> "llm", text |-> chat_outcome.content] >>,
        searched |-> <<>>, prompt |-> prompt, chat_calls |-> 1, store |-> S]
  ELSE [fallback_response(S, prompt, embed_outcome, faults) EXCEPT !.chat_calls = @ + 1]

\* lines 346-347
effective_user_allergens(question, user_allergens) ==
  IF user_allergens.given THEN user_allergens.list
  ELSE QuestionAllergens[question]

\* lines 350-352
effective_document_names(question, document_names) ==
  IF document_names.kind = "none" /\ QuestionCompany[question] # None
  THEN OneDocument(QuestionCompany[question])
  ELSE document_names

\* The mutant of compose_answer that leaves the summary to the model when
\* the model answered
compose_answer_summary_in_fallback_only(body, allergen_info, allergen_analysis) ==
  body
  \o (IF allergen_info # <<>> /\ body[1].kind = "fallback"
      THEN << [kind |-> "summary", lines |-> allergen_info] >> ELSE <<>>)
  \o (IF allergen_analysis # <<>>
      THEN << [kind |-> "analysis", lines |-> allergen_analysis] >> ELSE <<>>)

\* lines 372-384: the summary and the analysis appended to the answer
compose_answer(body, allergen_info, allergen_analysis) ==
  body
  \o (IF allergen_info # <<>>
      THEN << [kind |-> "summary", lines |-> allergen_info] >> ELSE <<>>)
  \o (IF allergen_analysis # <<>>
      THEN << [kind |-> "analysis", lines |-> allergen_analysis] >> ELSE <<>>)

\* `document_names or [doc.name for doc in config.documents]` (line 392)
reported_documents(document_names) ==
  IF document_names.ids = <<>> THEN DocumentList(DocNames) ELSE document_names

\* the one element of a singleton set
TheOne(S) == CHOOSE x \in S : TRUE

\* lines 366-412: the record answer_question returns, from the context of
\* step 1 and the outcome of step 4.  collections_searched lists, in order,
\* the collections targeted by every search made during the call; prompt is
\* the prompt handed to query_llm and chat_calls the calls of ollama.chat
\* made during the call.
answer_record(context_data, llm, question, names, allergens) ==
  LET allergen_info == get_allergen_info_for_context(context_data.context_by_company)
      allergen_analysis ==
        IF allergens # <<>>
        THEN suggest_alternatives_for_allergens(allergens, context_data.context_by_company)
        ELSE <<>>
  IN  IF llm.raised
      THEN \* lines 399-412
           [status |-> "error",
            question |-> question,
            answer |-> << [kind |-> "error", message |-> llm.exc] >>,
            context_used |-> <<>>,
            has_context |-> FALSE,
            searched_documents |-> DocumentList(<<>>),
            has_multiple_companies |-> FALSE,
            companies_found |-> <<>>,
            allergen_info |-> <<>>,
            user_allergens |-> allergens,
            collections_searched |-> context_data.searched \o llm.searched,
            prompt |-> llm.prompt,
            chat_calls |-> llm.chat_calls,
            store |-> llm.store]
      ELSE \* lines 386-397
           [status |-> "success",
            question |-> question,
            answer |-> compose_answer(llm.answer, allergen_info, allergen_analysis),
            context_used |-> context_data.context_by_company,
            has_context |-> context_data.context_by_company # <<>>,
            searched_documents |-> reported_documents(names),
            has_multiple_companies |-> context_data.has_multiple_companies,
            companies_found |-> [g \in 1..Len(context_data.context_by_company) |->
                                   context_data.context_by_company[g].company],
            allergen_info |-> allergen_info,
            user_allergens |-> allergens,
            collections_searched |-> context_data.searched \o llm.searched,
            prompt |-> llm.prompt,
            chat_calls |-> llm.chat_calls,
            store |-> llm.store]

\* lines 360-364: the prompt, then the model queried on the store that the
\* retrieval of step 1 left
answer_with_context(context_data, question, names, allergens, embed_outcome, chat_outcome, faults) ==
  TheOne({ answer_record(context_data, llm, question, names, allergens) :
           llm \in { query_llm(context_data.store, create_prompt(question, context_data),
                               chat_outcome, embed_outcome, faults) } })

\* answer_question: steps 1 to 5 in the order of the code, each step's value
\* computed once
answer_question(S, question, document_names, user_allergens, embed_outcome, chat_outcome, faults) ==
  TheOne({ answer_with_context(context_data, question,
                               effective_document_names(question, document_names),
                               effective_user_allergens(question, user_allergens),
                               embed_outcome, chat_outcome, faults) :
           context_data \in
             { get_context(S, embed_outcome,
                           effective_document_names(question, document_names),
                           DefaultMaxChunks, faults) } })

----------------------------------------------------------------------------
(* The pipeline as a state machine: one process, one call at a time.  An   *)
(* operation runs from the idle state and leaves its inputs in `call` and  *)
(* what it returned in `result`; Return hands the result to the caller and *)
(* the process is idle again, the store as the operation left it.           *)
(* Init is the state after VectorStore.__init__: no cached handle, and in  *)
(* the persistent client whatever earlier runs left behind.                 *)

MaxResults == 4

MaxChunks == 4

Store == [collections |-> collections, storage |-> storage]

\* a returned record without the store it leaves behind
Returned(r) == [f \in (DOMAIN r) \ {"store"} |-> r[f]]

Idle == call.op = "none"

IdleStore ==
  /\ collections = [d \in DocUniverse |-> NoHandle]
  /\ storage = [d \in DocUniverse |-> AbsentCollection]
  /\ call = [op |-> "none"]
  /\ result = [op |-> "none"]

IdleText ==
  /\ text = <<>>
  /\ detected = <<>>
  /\ extracted = <<>>
  /\ tpc = "idle"

\* What earlier runs may have left: the collections of any of the registry's
\* documents, and beside all of them the collection of a document that has
\* since left the registry
InitialStorages ==
  { [d \in DocUniverse |->
       IF d \in P THEN PersistedCollection(d) ELSE AbsentCollection] :
    P \in (SUBSET Range(DocNames)) \cup {DocUniverse} }

Init ==
  /\ collections = [d \in DocUniverse |-> NoHandle]
  /\ storage \in InitialStorages
  /\ call = [op |-> "none"]
  /\ result = [op |-> "none"]
  /\ IdleText

GetOrCreateCollection ==
  \E d \in DocUniverse, faults \in FaultSets :
     LET r == get_or_create_collection(Store, d, faults)
     IN  /\ Idle
         /\ call' = [op |-> "get_or_create_collection", document_name |-> d,
                     faults |-> faults]
         /\ result' = Returned(r)
         /\ collections' = r.store.collections
         /\ storage' = r.store.storage
         /\ UNCHANGED textVars

Search ==
  \E sel \in DocSelections, n \in 0..MaxResults,
     embed \in EmbedOutcomes, faults \in FaultSets :
     LET r == search(Store, embed, sel, n, faults)
     IN  /\ Idle
         /\ call' = [op |-> "search", document_names |-> sel, n_results |-> n,
                     embed |-> embed, faults |-> faults]
         /\ result' = Returned(r)
         /\ collections' = r.store.collections
         /\ storage' = r.store.storage
         /\ UNCHANGED textVars

GetContext ==
  \E sel \in DocSelections, m \in 0..MaxChunks,
     embed \in EmbedOutcomes, faults \in FaultSets :
     LET r == get_context(Store, embed, sel, m, faults)
     IN  /\ Idle
         /\ call' = [op |-> "get_context", document_names |-> sel, max_chunks |-> m,
                     embed |-> embed, faults |-> faults]
         /\ result' = Returned(r)
         /\ collections' = r.store.collections
         /\ storage' = r.store.storage
         /\ UNCHANGED textVars

AnswerQuestion ==
  \E q \in SampleQuestions, sel \in DocSelections, ua \in AllergenArgs,
     embed \in EmbedOutcomes, chat \in ChatOutcomes, faults \in FaultSets :
     LET r == answer_question(Store, q, sel, ua, embed, chat, faults)
     IN  /\ Idle
         /\ call' = [op |-> "answer_question", question |-> q, document_names |-> sel,
                     user_allergens |-> ua, embed |-> embed, chat |-> chat,
                     faults |-> faults]
         /\ result' = Returned(r)
         /\ collections' = r.store.collections
         /\ storage' = r.store.storage
         /\ UNCHANGED textVars

Return ==
  /\ ~Idle
  /\ call' = [op |-> "none"]
  /\ result' = [op |-> "none"]
  /\ UNCHANGED <<collections, storage, textVars>>

Next == GetOrCreateCollection \/ Search \/ GetContext \/ AnswerQuestion \/ Return

Spec == Init /\ [][Next]_vars

----------------------------------------------------------------------------
(* Inputs of the allergen functions: texts of at most MaxWords words taken  *)
(* from a vocabulary of keywords (plain, upper-case, additive code,         *)
(* ligature), indicator words and neutral words, joined by single spaces.   *)

MaxWords == 3

Vocabulary ==
  { <<"g","l","u","t","e","n">>,
    <<"L","A","I","T">>,
    <<"E","2","2","0">>,
    <<"s","a","n","s">>,
    <<"a","l","l","e","r","g","i","q","u","e">>,
    <<"a","u">>,
    <<"t","h","o","n">>,
    <<"a","r","t","i","s","a","n","s">>,
    <<"b","e","u","r","r","e">>,
    <<"p","i","z","z","a">>,
    <<"OE","u","f","s">>,
    <<"i","n","t","o","l","é","r","a","n","t">>,
    <<"a","r","a","c","h","i","d","e","s">> }

RECURSIVE JoinWords(_)
JoinWords(ws) ==
  IF ws = <<>> THEN <<>>
  ELSE IF Len(ws) = 1 THEN ws[1]
  ELSE ws[1] \o <<" ">> \o JoinWords(Tail(ws))

TextInputs ==
  { JoinWords(ws) : ws \in UNION { [1..n -> Vocabulary] : n \in 0..MaxWords } }

----------------------------------------------------------------------------
(* The allergen functions applied to one input text *)

InitText ==
  /\ text \in TextInputs
  /\ detected = <<>>
  /\ extracted = <<>>
  /\ tpc = "input"
  /\ IdleStore

DetectAllergens ==
  /\ tpc = "input"
  /\ detected' = detect_allergens_in_text(text)
  /\ tpc' = "detected"
  /\ UNCHANGED <<text, extracted, storeVars>>

ExtractUserAllergens ==
  /\ tpc = "input"
  /\ extracted' = extract_user_allergens_from_question(text)
  /\ tpc' = "extracted"
  /\ UNCHANGED <<text, detected, storeVars>>

NextText == DetectAllergens \/ ExtractUserAllergens

SpecText == InitText /\ [][NextText]_vars

----------------------------------------------------------------------------
(* The allergen analysis applied to one context: the groups of a context   *)
(* hold snippets of the stored chunks, the user's allergens are a list of  *)
(* categories.                                                              *)

\* the snippets of the chunks of one document, in stored order
DocSnippets(d) == [i \in 1..Len(Corpus(d)) |-> FormatContext(Hit(Corpus(d)[i], d, 0))]

\* the first n snippets of d under its company, no group when n = 0
GroupOf(d, n) ==
  IF n = 0 THEN <<>>
  ELSE << [company |-> CompanyNames[d], contexts |-> SubSeq(DocSnippets(d), 1, n)] >>

\* contexts as get_context can build them: per document a prefix of its snippets
ContextInputs ==
  { GroupOf("anchor_pizza", a) \o GroupOf("marco_fuso", m) \o GroupOf(UnknownDoc, o) :
      a \in 0..Len(Corpus("anchor_pizza")), m \in 0..Len(Corpus("marco_fuso")),
      o \in 0..Len(Corpus(UnknownDoc)) }
    \cup
  { GroupOf("marco_fuso", m) \o GroupOf("anchor_pizza", a) :
      a \in 1..Len(Corpus("anchor_pizza")), m \in 1..Len(Corpus("marco_fuso")) }

UserAllergenInputs ==
  { <<>>, <<"Lait">>, <<"Gluten">>, <<"Poisson">>, <<"Sulfites">>,
    <<"Lait", "Gluten">>, <<"Poisson", "Lait">>, <<"Arachides", "Gluten", "Lait">> }

InitAnalysis ==
  /\ call \in { [op |-> "context", user_allergens |-> ua, context_by_company |-> c] :
                  ua \in UserAllergenInputs, c \in ContextInputs }
  /\ result = [op |-> "none"]
  /\ collections = [d \in DocUniverse |-> NoHandle]
  /\ storage = [d \in DocUniverse |-> AbsentCollection]
  /\ IdleText

GetAllergenInfo ==
  /\ call.op = "context"
  /\ call' = [call EXCEPT !.op = "get_allergen_info_for_context"]
  /\ result' = [allergen_info |-> get_allergen_info_for_context(call.context_by_company)]
  /\ UNCHANGED <<collections, storage, textVars>>

SuggestAlternatives ==
  /\ call.op = "context"
  /\ call' = [call EXCEPT !.op = "suggest_alternatives_for_allergens"]
  /\ result' = [suggestions |->
                  suggest_alternatives_for_allergens(call.user_allergens,
                                                     call.context_by_company)]
  /\ UNCHANGED <<collections, storage, textVars>>

NextAnalysis == GetAllergenInfo \/ SuggestAlternatives

SpecAnalysis == InitAnalysis /\ [][NextAnalysis]_vars

----------------------------------------------------------------------------
(* VectorStore.chunk_text (vector_store.py, lines 72-96) *)

\* config.vector_store.chunk_size and config.vector_store.overlap
ConfigChunkSize == 500

ConfigOverlap == 50

\* an optional integer argument: left out (None), or passed
NotPassed == [given |-> FALSE, value |-> 0]

Passed(v) == [given |-> TRUE, value |-> v]

\* `arg or default` (lines 85-86): None and 0 both give the default
OrDefault(arg, default) == IF arg.given /\ arg.value # 0 THEN arg.value ELSE default

\* range(0, n, step) for step # 0: no index when the step is negative
range_from_zero(n, step) ==
  IF step > 0 THEN [k \in 1..((n + step - 1) \div step) |-> (k - 1) * step]
  ELSE <<>>

\* words[i:i + chunk_size] for i >= 0 and chunk_size >= 1
Slice(words, i, chunk_size) ==
  SubSeq(words, i + 1, IF i + chunk_size < Len(words) THEN i + chunk_size ELSE Len(words))

\* chunk_text; range() raises ValueError for a step of 0
chunk_text(t, chunk_size, overlap) ==
  LET size  == OrDefault(chunk_size, ConfigChunkSize)
      over  == OrDefault(overlap, ConfigOverlap)
      words == SplitWords(t)
      starts == range_from_zero(Len(words), size - over)
      chunk(k) == JoinWords(Slice(words, starts[k], size))
  IN  IF size - over = 0
      THEN [raised |-> TRUE, chunks |-> <<>>]
      ELSE [raised |-> FALSE,
            \* lines 93-94: a chunk is kept when chunk.strip() is not empty
            chunks |-> SelectSeq([k \in 1..Len(starts) |-> chunk(k)],
                                 LAMBDA c : SplitWords(c) # <<>>)]

----------------------------------------------------------------------------
(* chunk_text applied to one text: up to MaxChunkWords distinct words,     *)
(* separated by single spaces, or by double spaces with a space at both    *)
(* ends; chunk sizes up to MaxChunkSize, overlaps from 0 up to the size.   *)

MaxChunkWords == 5

MaxChunkSize == 3

WordStock == << <<"a">>, <<"b","b">>, <<"c">>, <<"d">>, <<"e","e">>, <<"f">>, <<"g">> >>

RECURSIVE JoinPadded(_)
JoinPadded(ws) ==
  IF ws = <<>> THEN <<" ">>
  ELSE <<" ">> \o ws[1] \o <<" ">> \o JoinPadded(Tail(ws))

ChunkTexts ==
  { JoinWords(SubSeq(WordStock, 1, n)) : n \in 0..MaxChunkWords }
    \cup { JoinPadded(SubSeq(WordStock, 1, n)) : n \in 0..MaxChunkWords }

InitChunk ==
  /\ call \in { [op |-> "text", text |-> t, chunk_size |-> cs, overlap |-> ov] :
                  t \in ChunkTexts,
                  cs \in {NotPassed} \cup { Passed(v) : v \in 1..MaxChunkSize },
                  ov \in {NotPassed} \cup { Passed(v) : v \in 0..MaxChunkSize } }
  /\ result = [op |-> "none"]
  /\ collections = [d \in DocUniverse |-> NoHandle]
  /\ storage = [d \in DocUniverse |-> AbsentCollection]
  /\ IdleText

ChunkText ==
  /\ call.op = "text"
  /\ call' = [call EXCEPT !.op = "chunk_text"]
  /\ result' = chunk_text(call.text, call.chunk_size, call.overlap)
  /\ UNCHANGED <<collections, storage, textVars>>

NextChunk == ChunkText

SpecChunk == InitChunk /\ [][NextChunk]_vars

----------------------------------------------------------------------------
(* Ingestion: VectorStore.add_document (vector_store.py, lines 142-215).    *)
(* The processed JSON of a document is an input of the call: missing,       *)
(* unreadable, or a record with a list of sections; a section carries its  *)
(* content and, when has_page, a page number.                               *)

Section(has_page, page, content) ==
  [has_page |-> has_page, page |-> page, content |-> content]

Parsed(sections) == [kind |-> "ok", sections |-> sections]

MissingFile == [kind |-> "missing", sections |-> <<>>]

UnreadableFile == [kind |-> "unreadable", sections |-> <<>>]

\* section.get('page', i), i the 0-based position of the section
section_page(section, i) == IF section.has_page THEN section.page ELSE i

\* what ollama.embeddings returns for the n-th chunk generated by the call
ChunkEmbedOutcome(n, failing) ==
  IF n \in failing THEN [raised |-> TRUE, vector |-> 0] ELSE [raised |-> FALSE, vector |-> 1]

\* lines 174-198 for section i (0-based): nothing for an empty content, else
\* one entry per chunk of chunk_text(content); `before` chunks were generated
\* by the sections before it
section_chunks(document_name, section, i, before, failing) ==
  IF section.content = <<>> THEN <<>>
  ELSE LET chunks == chunk_text(section.content, NotPassed, NotPassed).chunks
       IN  [j \in 1..Len(chunks) |->
              [id |-> <<document_name, section_page(section, i), j - 1>>,
               page |-> section_page(section, i),
               chunk_index |-> j - 1,
               embedding |-> generate_ollama_embedding(ChunkEmbedOutcome(before + j, failing)),
               content |-> chunks[j]]]

\* the loop of line 173 over the first n sections
RECURSIVE generated_chunks(_, _, _, _)
generated_chunks(document_name, sections, n, failing) ==
  IF n = 0 THEN <<>>
  ELSE LET earlier == generated_chunks(document_name, sections, n - 1, failing)
       IN  earlier \o section_chunks(document_name, sections[n], n - 1, Len(earlier), failing)

HasDuplicateIds(chunks) ==
  \E a, b \in 1..Len(chunks) : a # b /\ chunks[a].id = chunks[b].id

StoredIds(items) == { items[k].id : k \in 1..Len(items) }

\* How the Chroma client in use treats an add of ids the collection holds
\* already: it raises, or it keeps the stored entries and skips the new ones
OnExisting == {"raise", "skip"}

\* What the backing store may refuse during one call on the collections of
\* docs: beside "open", <<d, "add">> makes collection.add raise for d and
\* <<d, "count">> collection.count
StoreFaults(docs, kinds) == {{}} \cup { {<<d, k>>} : d \in docs, k \in kinds }

\* The mutant of collection_add that writes the entries one at a time: the
\* entries before the one that is refused stay written
collection_add_one_by_one(items, document_name, chunks, faults, on_existing) ==
  LET F[k \in 0..Len(chunks)] ==
        IF k = 0 THEN [raised |-> FALSE, items |-> items]
        ELSE LET prev == F[k - 1]
                 refused == \/ chunks[k].id \in StoredIds(prev.items) /\ on_existing = "raise"
                            \/ <<document_name, "add">> \in faults /\ k = Len(chunks)
             IN  IF prev.raised THEN prev
                 ELSE IF refused THEN [raised |-> TRUE, items |-> prev.items]
                 ELSE IF chunks[k].id \in StoredIds(prev.items) THEN prev
                 ELSE [raised |-> FALSE, items |-> Append(prev.items, chunks[k])]
  IN  F[Len(chunks)]

\* collection.add(documents, embeddings, metadatas, ids) (lines 202-207), one
\* call for all the chunks: refused as a whole when the store fails, when
\* two of the ids are equal, or (client raising on existing ids) when one is
\* stored already
collection_add(items, document_name, chunks, faults, on_existing) ==
  LET existing == { k \in 1..Len(chunks) : chunks[k].id \in StoredIds(items) }
  IN  IF \/ <<document_name, "add">> \in faults
         \/ HasDuplicateIds(chunks)
         \/ existing # {} /\ on_existing = "raise"
      THEN [raised |-> TRUE, items |-> items]
      ELSE [raised |-> FALSE,
            items |-> items \o SelectSeq(chunks, LAMBDA c : c.id \notin StoredIds(items))]

\* add_document; generated lists the entries built by lines 173-198, empty
\* when the call ends before them.  Every exception is caught at line 213:
\* the call never raises
add_document(S, document_name, parsed, failing, faults, on_existing) ==
  IF \/ ~InRegistry(document_name)        \* line 154 raises ValueError
     \/ parsed.kind = "missing"            \* line 157
     \/ parsed.kind = "unreadable"         \* line 162 raises
  THEN [raised |-> FALSE, returned |-> FALSE, generated |-> <<>>, store |-> S]
  ELSE LET got == get_or_create_collection(S, document_name, faults)
           chunks == generated_chunks(document_name, parsed.sections,
                                      Len(parsed.sections), failing)
           added == collection_add(got.store.storage[document_name].items,
                                   document_name, chunks, faults, on_existing)
       IN  IF got.raised \/ ~HandleValid(got.store, document_name, got.handle)
           THEN [raised |-> FALSE, returned |-> FALSE, generated |-> <<>>, store |-> got.store]
           ELSE IF chunks = <<>>            \* line 201, else line 211
           THEN [raised |-> FALSE, returned |-> FALSE, generated |-> chunks, store |-> got.store]
           ELSE \* lines 202-209; a refused add ends at line 213
                [raised |-> FALSE, returned |-> ~added.raised, generated |-> chunks,
                 store |-> [got.store EXCEPT !.storage[document_name].items = added.items]]

\* collection.count() (line 303): raises when the store refuses it or the
\* handle refers to no collection of the store
CountRaises(S, doc_name, handle, faults) ==
  <<doc_name, "count">> \in faults \/ ~HandleValid(S, doc_name, handle)

\* the entry of one document (lines 301-312) and the store the attempt leaves
stats_entry(S, doc_name, faults) ==
  LET got == get_or_create_collection(S, doc_name, faults)
  IN  IF got.raised \/ CountRaises(got.store, doc_name, got.handle, faults)
      THEN [ok |-> FALSE, store |-> got.store,
            entry |-> [document_count |-> 0, error |-> TRUE]]
      ELSE [ok |-> TRUE, store |-> got.store,
            entry |-> [document_count |-> Len(got.store.storage[doc_name].items),
                       collection_name |-> doc_name]]

\* The mutant of get_stats that counts an entry into total_collections
\* whether or not its collection answered
get_stats_counts_failed(S, faults) ==
  LET F[i \in 0..Len(DocNames)] ==
        IF i = 0
        THEN [store |-> S, total_collections |-> 0, total_documents |-> 0, entries |-> <<>>]
        ELSE LET prev == F[i - 1]
                 e == stats_entry(prev.store, DocNames[i], faults)
             IN  [store |-> e.store,
                  total_collections |-> prev.total_collections + 1,
                  total_documents |-> prev.total_documents + e.entry.document_count,
                  entries |-> Append(prev.entries, e.entry)]
      last == F[Len(DocNames)]
  IN  [raised |-> FALSE,
       total_collections |-> last.total_collections,
       total_documents |-> last.total_documents,
       collections |-> [d \in Range(DocNames) |->
                          last.entries[CHOOSE i \in 1..Len(DocNames) : DocNames[i] = d]],
       store |-> last.store]

\* get_stats (lines 285-317): the loop over config.documents; every
\* exception is caught at line 309 or at line 314
get_stats(S, faults) ==
  LET F[i \in 0..Len(DocNames)] ==
        IF i = 0
        THEN [store |-> S, total_collections |-> 0, total_documents |-> 0, entries |-> <<>>]
        ELSE LET prev == F[i - 1]
                 e == stats_entry(prev.store, DocNames[i], faults)
             IN  [store |-> e.store,
                  total_collections |-> prev.total_collections + (IF e.ok THEN 1 ELSE 0),
                  total_documents |-> prev.total_documents + (IF e.ok THEN e.entry.document_count ELSE 0),
                  entries |-> Append(prev.entries, e.entry)]
      last == F[Len(DocNames)]
  IN  [raised |-> FALSE,
       total_collections |-> last.total_collections,
       total_documents |-> last.total_documents,
       collections |-> [d \in Range(DocNames) |->
                          last.entries[CHOOSE i \in 1..Len(DocNames) : DocNames[i] = d]],
       store |-> last.store]

----------------------------------------------------------------------------
(* The ingestion state machine: add_document, add_all_documents and         *)
(* get_stats on the store of the pipeline, one call at a time.              *)

MaxStored == 2

RECURSIVE SumOver(_, _)
SumOver(f, D) ==
  IF D = {} THEN 0
  ELSE LET d == CHOOSE x \in D : TRUE IN f[d] + SumOver(f, D \ {d})

\* the chunks held by all the collections together
TotalStored == SumOver([d \in DocUniverse |-> Len(storage[d].items)], DocUniverse)

Farine == <<"f","a","r","i","n","e">>

Thon == <<"t","h","o","n">>

Blank == <<" ">>

\* The processed files a call may find: none, an unreadable one, and
\* records whose sections carry a page number, repeat one, or omit it
ParsedRecords ==
  { MissingFile, UnreadableFile,
    Parsed(<<>>),
    Parsed(<<Section(TRUE, 1, <<>>)>>),
    Parsed(<<Section(TRUE, 1, Blank)>>),
    Parsed(<<Section(TRUE, 3, Thon)>>),
    Parsed(<<Section(TRUE, 1, Farine), Section(TRUE, 2, Thon)>>),
    Parsed(<<Section(TRUE, 1, <<>>), Section(TRUE, 4, Farine)>>),
    Parsed(<<Section(TRUE, 1, Farine), Section(TRUE, 1, Thon)>>),
    Parsed(<<Section(TRUE, 1, Farine), Section(FALSE, 0, Thon)>>),
    Parsed(<<Section(FALSE, 0, Farine), Section(FALSE, 0, Thon)>>) }

\* the chunks a record yields: each may be the one whose embedding fails
ChunkPositions(parsed) ==
  1..Len(generated_chunks("anchor_pizza", parsed.sections, Len(parsed.sections), {}))

AddDocument ==
  \E d \in DocUniverse, parsed \in ParsedRecords, on_existing \in OnExisting :
     \E failing \in SUBSET ChunkPositions(parsed), faults \in StoreFaults({d}, {"open", "add"}) :
        LET r == add_document(Store, d, parsed, failing, faults, on_existing)
        IN  /\ Idle
            /\ TotalStored <= MaxStored
            /\ call' = [op |-> "add_document", document_name |-> d, parsed |-> parsed,
                        failing |-> failing, faults |-> faults,
                        on_existing |-> on_existing, before |-> storage]
            /\ result' = Returned(r)
            /\ collections' = r.store.collections
            /\ storage' = r.store.storage
            /\ UNCHANGED textVars

GetStats ==
  \E faults \in StoreFaults(Range(DocNames), {"open", "count"}) :
     LET r == get_stats(Store, faults)
     IN  /\ Idle
         /\ call' = [op |-> "get_stats", faults |-> faults, cached |-> collections]
         /\ result' = Returned(r)
         /\ collections' = r.store.collections
         /\ storage' = r.store.storage
         /\ UNCHANGED textVars

NextIngest == AddDocument \/ GetStats \/ Return

SpecIngest == Init /\ [][NextIngest]_vars

----------------------------------------------------------------------------
(* The read-only operations as a state machine: any sequence of search,    *)
(* get_context, answer_question and get_stats calls on what earlier runs   *)
(* left in the store.                                                       *)

NextReadOnly == Search \/ GetContext \/ AnswerQuestion \/ GetStats \/ Return

SpecReadOnly == Init /\ [][NextReadOnly]_vars

----------------------------------------------------------------------------
(* Batch processing.  processors/document_processor.py turns the PDF of    *)
(* each registry document into a processed JSON; src/core/                  *)
(* document_processor.py runs every PDF of a directory through extraction  *)
(* with fallbacks; VectorStore.add_all_documents ingests every registry    *)
(* document.  A PDF is missing, broken (fitz raises) or a list of page     *)
(* texts.                                                                   *)

\* str.strip() on the texts of the model, whose only white space is " "
RECURSIVE strip(_)
strip(s) ==
  IF s = <<>> THEN <<>>
  ELSE IF Head(s) = " " THEN strip(Tail(s))
  ELSE IF s[Len(s)] = " " THEN strip(SubSeq(s, 1, Len(s) - 1))
  ELSE s

Pdf(pages) == [kind |-> "ok", pages |-> pages]

MissingPdf == [kind |-> "missing", pages |-> <<>>]

BrokenPdf == [kind |-> "broken", pages |-> <<>>]

\* extract_text_from_pdf (lines 20-52): one section per page whose text is
\* not blank, numbered from 1; no section at all when fitz raises
extract_text_from_pdf(pdf) ==
  IF pdf.kind # "ok" THEN <<>>
  ELSE SelectSeq([k \in 1..Len(pdf.pages) |-> Section(TRUE, k, strip(pdf.pages[k]))],
                 LAMBDA s : s.content # <<>>)

\* process_document (lines 54-112): True with the processed JSON written,
\* False with no processed file (MissingFile)
process_document(pdf, writable) ==
  LET sections == extract_text_from_pdf(pdf)
  IN  IF pdf.kind = "missing" THEN [returned |-> FALSE, written |-> MissingFile]   \* line 68
      ELSE IF sections = <<>> THEN [returned |-> FALSE, written |-> MissingFile]   \* line 76
      ELSE IF ~writable THEN [returned |-> FALSE, written |-> MissingFile]         \* line 110
      ELSE [returned |-> TRUE, written |-> Parsed(sections)]

\* The mutant of process_all_documents that leaves the loop at the first
\* document that fails
process_all_documents_stops_at_failure(pdfs, writable) ==
  LET done == { i \in 1..Len(DocNames) :
                  \A k \in 1..(i - 1) : process_document(pdfs[DocNames[k]], DocNames[k] \in writable).returned }
      names == { DocNames[i] : i \in done }
  IN  [raised |-> FALSE,
       results |-> [d \in names |-> process_document(pdfs[d], d \in writable).returned],
       written |-> [d \in names |-> process_document(pdfs[d], d \in writable).written]]

\* process_all_documents (lines 114-133): results[doc.name] for every
\* document of config.documents
process_all_documents(pdfs, writable) ==
  [raised |-> FALSE,
   results |-> [d \in Range(DocNames) |-> process_document(pdfs[d], d \in writable).returned],
   written |-> [d \in Range(DocNames) |-> process_document(pdfs[d], d \in writable).written]]

\* src/core/document_processor.py.  An extraction method raises or returns
\* a text; later names whether a step after the extraction (classify,
\* parse, assess, chunk) raises.
MinTextLength == 10

MethodRaises == [raised |-> TRUE, text |-> <<>>]

MethodText(t) == [raised |-> FALSE, text |-> t]

\* _validate_extraction (lines 153-168)
validate_extraction(r) == r.text # <<>> /\ Len(strip(r.text)) >= MinTextLength

\* _extract_with_fallbacks (lines 115-151): the first method, in priority
\* order, that does not raise and whose result is valid; none when all fail
extract_with_fallbacks(methods) ==
  LET good == { i \in 1..Len(methods) : ~methods[i].raised /\ validate_extraction(methods[i]) }
  IN  IF good = {} THEN [found |-> FALSE, text |-> <<>>]
      ELSE [found |-> TRUE, text |-> methods[CHOOSE i \in good : \A j \in good : i <= j].text]

\* process_document (lines 73-113)
pipeline_process_document(file) ==
  IF ~extract_with_fallbacks(file.methods).found      \* line 79
  THEN [raised |-> FALSE, status |-> "extraction_failed"]
  ELSE IF file.later = "raises" THEN [raised |-> TRUE, status |-> "none"]
  ELSE [raised |-> FALSE, status |-> "success"]

\* process_all_documents(docs_dir) (lines 191-227): one result per PDF of
\* the directory, "error" for a file whose processing raised
pipeline_process_all_documents(dir_exists, files) ==
  IF ~dir_exists THEN [raised |-> FALSE, results |-> <<>>]
  ELSE [raised |-> FALSE,
        results |-> [i \in 1..Len(files) |->
                       IF pipeline_process_document(files[i]).raised THEN "error"
                       ELSE pipeline_process_document(files[i]).status]]

\* add_all_documents (lines 319-339): add_document for every document of
\* config.documents, each on the store the one before left
add_all_documents(S, files, failing, faults, on_existing) ==
  LET F[i \in 0..Len(DocNames)] ==
        IF i = 0 THEN [store |-> S, returned |-> <<>>]
        ELSE LET prev == F[i - 1]
                 r == add_document(prev.store, DocNames[i], files[DocNames[i]],
                                   failing, faults, on_existing)
             IN  [store |-> r.store, returned |-> Append(prev.returned, r.returned)]
      last == F[Len(DocNames)]
  IN  [raised |-> FALSE,
       results |-> [d \in Range(DocNames) |->
                      last.returned[CHOOSE i \in 1..Len(DocNames) : DocNames[i] = d]],
       store |-> last.store]

----------------------------------------------------------------------------
(* The batch state machine: the three batch operations, one call at a time. *)

PaddedThon == <<" ","t","h","o","n"," ">>

PizzaThonFrais == <<"p","i","z","z","a"," ","t","h","o","n"," ","f","r","a","i","s">>

PdfInputs ==
  { MissingPdf, BrokenPdf, Pdf(<<>>), Pdf(<<Blank>>), Pdf(<<Farine>>),
    Pdf(<<Blank, PaddedThon>>), Pdf(<<Farine, Thon>>) }

ProcessAllDocuments ==
  \E pdfs \in [Range(DocNames) -> PdfInputs], writable \in SUBSET Range(DocNames) :
     /\ Idle
     /\ call' = [op |-> "process_all_documents", pdfs |-> pdfs, writable |-> writable]
     /\ result' = process_all_documents(pdfs, writable)
     /\ UNCHANGED <<collections, storage, textVars>>

MethodOutcomes ==
  { MethodRaises, MethodText(<<>>), MethodText(PaddedThon), MethodText(PizzaThonFrais) }

\* a PDF of the directory: what each of two extraction methods does with it
PipelineFiles ==
  { [methods |-> <<a, b>>, later |-> l] :
      a \in MethodOutcomes, b \in {MethodRaises, MethodText(PizzaThonFrais)},
      l \in {"ok", "raises"} }

PipelineProcessAllDocuments ==
  \E dir_exists \in BOOLEAN, f \in PipelineFiles, g \in PipelineFiles :
     /\ Idle
     /\ call' = [op |-> "pipeline_process_all_documents", dir_exists |-> dir_exists,
                 files |-> <<f, g>>]
     /\ result' = pipeline_process_all_documents(dir_exists, <<f, g>>)
     /\ UNCHANGED <<collections, storage, textVars>>

\* the processed files add_all_documents may find
BatchRecords ==
  { MissingFile,
    Parsed(<<Section(TRUE, 1, Blank)>>),
    Parsed(<<Section(TRUE, 3, Thon)>>),
    Parsed(<<Section(TRUE, 1, Farine), Section(TRUE, 2, Thon)>>),
    Parsed(<<Section(TRUE, 1, Farine), Section(TRUE, 1, Thon)>>) }

AddAllDocuments ==
  \E files \in [Range(DocNames) -> BatchRecords], failing \in {{}, {1}},
     faults \in StoreFaults(Range(DocNames), {"open", "add"}), on_existing \in OnExisting :
     LET r == add_all_documents(Store, files, failing, faults, on_existing)
     IN  /\ Idle
         /\ TotalStored <= MaxStored
         /\ call' = [op |-> "add_all_documents", files |-> files, failing |-> failing,
                     faults |-> faults, on_existing |-> on_existing, before |-> storage]
         /\ result' = Returned(r)
         /\ collections' = r.store.collections
         /\ storage' = r.store.storage
         /\ UNCHANGED textVars

NextBatch ==
  ProcessAllDocuments \/ PipelineProcessAllDocuments \/ AddAllDocuments \/ Return

SpecBatch == Init /\ [][NextBatch]_vars

----------------------------------------------------------------------------
(* Company detection applied to one query: queries of at most              *)
(* MaxQueryWords words taken from the words of the company names, the      *)
(* indicator words of the patterns and a neutral word.                      *)

MaxQueryWords == 3

QueryVocabulary ==
  { <<"c","h","e","z">>,
    <<"A","n","c","h","o","r">>,
    <<"p","i","z","z","a">>,
    <<"r","e","s","t","a","u","r","a","n","t">>,
    <<"m","a","r","c","o">>,
    <<"f","u","s","o">>,
    <<"P","i","z","z","e","r","i","a">>,
    <<"p","r","o","p","o","s","e">>,
    <<"q","u","e","l","l","e">> }

QueryInputs ==
  { JoinWords(ws) : ws \in UNION { [1..n -> QueryVocabulary] : n \in 0..MaxQueryWords } }

InitDetect ==
  /\ text \in QueryInputs
  /\ detected = <<>>
  /\ extracted = <<>>
  /\ tpc = "input"
  /\ IdleStore

DetectCompany ==
  /\ tpc = "input"
  /\ result' = [op |-> "detect_company_in_query", document_name |-> detect_company_in_query(text)]
  /\ tpc' = "detected"
  /\ UNCHANGED <<text, detected, extracted, collections, storage, call>>

NextDetect == DetectCompany

SpecDetect == InitDetect /\ [][NextDetect]_vars

----------------------------------------------------------------------------
(* DocumentChunker._chunk_generic_content (src/utils/chunking.py, 134-171). *)
(* A chunk is the text ' '.join(current_chunk).                             *)

DefaultGenericChunkSize == 1000

DefaultGenericChunkOverlap == 200

\* self.config.get(key, default) (lines 14-15)
ConfigGet(arg, default) == IF arg.given THEN arg.value ELSE default

\* -self.chunk_overlap//10: the floor division of the negated overlap
NegOverlapDiv10(chunk_overlap) == 0 - ((chunk_overlap + 9) \div 10)

\* current_chunk[k:] for k <= 0: the last -k words, the whole list for
\* k = 0 and when it holds no more than -k words
SliceFrom(ws, k) ==
  IF k = 0 \/ 0 - k >= Len(ws) THEN ws ELSE SubSeq(ws, Len(ws) + k + 1, Len(ws))

RECURSIVE SumWordLen(_)
SumWordLen(ws) == IF ws = <<>> THEN 0 ELSE Len(Head(ws)) + SumWordLen(Tail(ws))

\* the body of the loop of line 144 for one word
generic_step(st, word, chunk_size, chunk_overlap) ==
  LET current == Append(st.current_chunk, word)
      size    == st.current_size + Len(word) + 1
      overlap_words == SliceFrom(current, NegOverlapDiv10(chunk_overlap))
  IN  IF size >= chunk_size
      THEN [current_chunk |-> overlap_words,
            current_size |-> SumWordLen(overlap_words),
            chunks |-> Append(st.chunks, JoinWords(current))]
      ELSE [current_chunk |-> current, current_size |-> size, chunks |-> st.chunks]

\* _chunk_generic_content with the parameters __init__ reads from the config
chunk_generic_content(t, size_arg, overlap_arg) ==
  LET chunk_size    == ConfigGet(size_arg, DefaultGenericChunkSize)
      chunk_overlap == ConfigGet(overlap_arg, DefaultGenericChunkOverlap)
      words == SplitWords(t)
      F[i \in 0..Len(words)] ==
        IF i = 0 THEN [current_chunk |-> <<>>, current_size |-> 0, chunks |-> <<>>]
        ELSE generic_step(F[i - 1], words[i], chunk_size, chunk_overlap)
      last == F[Len(words)]
  IN  [raised |-> FALSE,
       chunks |-> IF last.current_chunk # <<>>
                  THEN Append(last.chunks, JoinWords(last.current_chunk))
                  ELSE last.chunks]

MaxGenericSize == 6

MaxGenericOverlap == 11

InitGeneric ==
  /\ call \in { [op |-> "text", text |-> t, chunk_size |-> cs, chunk_overlap |-> ov] :
                  t \in ChunkTexts,
                  cs \in {NotPassed} \cup { Passed(v) : v \in 1..MaxGenericSize },
                  ov \in {NotPassed} \cup { Passed(v) : v \in 0..MaxGenericOverlap } }
  /\ result = [op |-> "none"]
  /\ collections = [d \in DocUniverse |-> NoHandle]
  /\ storage = [d \in DocUniverse |-> AbsentCollection]
  /\ IdleText

ChunkGenericContent ==
  /\ call.op = "text"
  /\ call' = [call EXCEPT !.op = "chunk_generic_content"]
  /\ result' = chunk_generic_content(call.text, call.chunk_size, call.chunk_overlap)
  /\ UNCHANGED <<collections, storage, textVars>>

NextGeneric == ChunkGenericContent

SpecGeneric == InitGeneric /\ [][NextGeneric]_vars

----------------------------------------------------------------------------
(* Two questions answered in parallel.  chainlit_app.main hands every       *)
(* question to loop.run_in_executor(None, llm_interface.answer_question,   *)
(* ...): the calls run in the threads of the default executor on the one   *)
(* module-level LLMInterface, hence on one VectorStore.  A thread is the   *)
(* body of the search loop for one document; it may be interrupted between *)
(* any two of the statements of get_or_create_collection, which takes no   *)
(* lock.  call.threads[t] holds the thread's position and locals,          *)
(* result.created[d] the number of create_collection calls that succeeded. *)

Threads == {1, 2}

ThreadStart(d) ==
  [pc |-> "check", document_name |-> d, handle |-> NoHandle, path |-> "none"]

InitConcurrent ==
  /\ collections = [d \in DocUniverse |-> NoHandle]
  /\ storage \in InitialStorages
  /\ call \in { [op |-> "search", before |-> storage, threads |-> th] :
                th \in [Threads -> { ThreadStart(d) : d \in DocUniverse }] }
  /\ result = [op |-> "search", created |-> [d \in DocUniverse |-> 0]]
  /\ IdleText

ThreadAt(t, pc) == call.op = "search" /\ call.threads[t].pc = pc

\* line 112: if document_name in self.collections: return self.collections[...]
ThreadCheckCache(t) ==
  LET th == call.threads[t]
      d  == th.document_name
  IN  /\ ThreadAt(t, "check")
      /\ call' = [call EXCEPT !.threads[t] =
                    IF collections[d] # NoHandle
                    THEN [th EXCEPT !.pc = "handle", !.handle = collections[d],
                                    !.path = "cached"]
                    ELSE [th EXCEPT !.pc = "get"]]
      /\ UNCHANGED <<text, detected, extracted, tpc, collections, storage, result>>

\* line 119: self.client.get_collection(name=collection_name)
ThreadGetCollection(t) ==
  LET th == call.threads[t]
      d  == th.document_name
  IN  /\ ThreadAt(t, "get")
      /\ call' = [call EXCEPT !.threads[t] =
                    IF storage[d].exists
                    THEN [th EXCEPT !.pc = "store", !.handle = storage[d].uid,
                                    !.path = "opened"]
                    ELSE [th EXCEPT !.pc = "create"]]
      /\ UNCHANGED <<text, detected, extracted, tpc, collections, storage, result>>

\* lines 123-137: get_document_by_name, then client.create_collection, which
\* refuses a name that is taken; search catches the exception and skips the
\* document (lines 267-269)
ThreadCreateCollection(t) ==
  LET th  == call.threads[t]
      d   == th.document_name
      bad == ~InRegistry(d) \/ storage[d].exists
      uid == storage[d].uid + 1
  IN  /\ ThreadAt(t, "create")
      /\ call' = [call EXCEPT !.threads[t] =
                    IF bad
                    THEN [th EXCEPT !.pc = "skipped", !.path = "failed"]
                    ELSE [th EXCEPT !.pc = "store", !.handle = uid,
                                    !.path = "created"]]
      /\ storage' = IF bad THEN storage
                    ELSE [storage EXCEPT ![d] = [exists |-> TRUE, uid |-> uid,
                                                 born |-> "now", items |-> <<>>]]
      /\ result' = IF bad THEN result ELSE [result EXCEPT !.created[d] = @ + 1]
      /\ UNCHANGED <<text, detected, extracted, tpc, collections>>

\* lines 139-140: self.collections[document_name] = collection; return collection
ThreadStoreHandle(t) ==
  LET th == call.threads[t]
  IN  /\ ThreadAt(t, "store")
      /\ collections' = [collections EXCEPT ![th.document_name] = th.handle]
      /\ call' = [call EXCEPT !.threads[t].pc = "handle"]
      /\ UNCHANGED <<text, detected, extracted, tpc, storage, result>>

\* lines 251-254: collection.query on the handle obtained
ThreadQuery(t) ==
  /\ ThreadAt(t, "handle")
  /\ call' = [call EXCEPT !.threads[t].pc = "queried"]
  /\ UNCHANGED <<text, detected, extracted, tpc, collections, storage, result>>

NextConcurrent ==
  \E t \in Threads :
     \/ ThreadCheckCache(t)
     \/ ThreadGetCollection(t)
     \/ ThreadCreateCollection(t)
     \/ ThreadStoreHandle(t)
     \/ ThreadQuery(t)

SpecConcurrent == InitConcurrent /\ [][NextConcurrent]_vars

----------------------------------------------------------------------------
(* The prompt as text.  create_prompt (rag_engine.py, 162-262) builds the   *)
(* prompt from the system role, the context block, the question and the    *)
(* instructions; _fallback_response (lines 312-315) cuts the question back *)
(* out of it.  A text is a sequence of characters; "\n" is the line feed    *)
(* and a character outside Latin-1 is written by its code point.           *)

\* the literal texts of create_prompt, by the line that holds them
PromptTemplate ==
  [
    \* line 225
    system_role_multi |->
      <<"T","u"," ","e","s"," ","u","n"," ","a","s","s","i","s","t","a","n",
        "t"," ","d","u"," ","g","r","o","u","p","e"," ","d","e"," ","p","i",
        "z","z","e","r","i","a","s","."," ","N","o","u","s"," ","a","v","o",
        "n","s"," ","p","l","u","s","i","e","u","r","s"," ","r","e","s","t",
        "a","u","r","a","n","t","s"," ","a","v","e","c"," ","d","e","s"," ",
        "m","e","n","u","s"," ","d","i","f","f","é","r","e","n","t","s",".">>,
    \* lines 226-237
    instructions_multi |->
      <<"I","N","S","T","R","U","C","T","I","O","N","S",":","\n","-"," ",
        "N","o","u","s"," ","s","o","m","m","e","s"," ","u","n"," ","g","r",
        "o","u","p","e"," ","d","e"," ","p","i","z","z","e","r","i","a","s",
        " ","a","v","e","c"," ","p","l","u","s","i","e","u","r","s"," ","r",
        "e","s","t","a","u","r","a","n","t","s","\n","-"," ","S","i"," ",
        "l","a"," ","q","u","e","s","t","i","o","n"," ","e","s","t"," ","g",
        "é","n","é","r","a","l","e",","," ","p","r","é","s","e","n","t","e",
        " ","l","e","s"," ","o","p","t","i","o","n","s"," ","d","e"," ","c",
        "h","a","q","u","e"," ","r","e","s","t","a","u","r","a","n","t"," ",
        "s","é","p","a","r","é","m","e","n","t","\n","-"," ","S","i"," ",
        "u","n"," ","r","e","s","t","a","u","r","a","n","t"," ","s","p","é",
        "c","i","f","i","q","u","e"," ","e","s","t"," ","m","e","n","t","i",
        "o","n","n","é",","," ","c","o","n","c","e","n","t","r","e","-","t",
        "o","i"," ","s","u","r"," ","c","e","l","u","i","-","c","i","\n",
        "-"," ","S","o","i","s"," ","p","r","é","c","i","s"," ","s","u","r",
        " ","q","u","e","l"," ","r","e","s","t","a","u","r","a","n","t"," ",
        "o","f","f","r","e"," ","q","u","o","i","\n","-"," ","F","o","r",
        "m","a","t",":"," ","\"","C","h","e","z"," ","[","N","o","m"," ",
        "R","e","s","t","a","u","r","a","n","t","]",":"," ","[","i","n","f",
        "o","]","\""," ","p","o","u","r"," ","c","h","a","q","u","e"," ",
        "r","e","s","t","a","u","r","a","n","t","\n","-"," ","P","R","I",
        "O","R","I","T","É"," ","A","B","S","O","L","U","E",":"," ","T","O",
        "U","J","O","U","R","S"," ","i","n","c","l","u","r","e"," ","l","e",
        "s"," ","i","n","f","o","r","m","a","t","i","o","n","s"," ","d","'",
        "a","l","l","e","r","g","è","n","e","s"," ","p","o","u","r"," ","c",
        "h","a","q","u","e"," ","p","i","z","z","a"," ","m","e","n","t","i",
        "o","n","n","é","e","\n","-"," ","S","i"," ","d","e","s"," ","a",
        "l","l","e","r","g","è","n","e","s"," ","s","o","n","t"," ","d","é",
        "t","e","c","t","é","s",","," ","A","V","E","R","T","I","S"," ","C",
        "L","A","I","R","E","M","E","N","T"," ","l","e"," ","c","l","i","e",
        "n","t"," ","a","v","e","c"," ","d","e","s"," ","e","m","o","j","i",
        "s"," ","U+26A0","U+FE0F","\n","-"," ","S","i"," ","l","e"," ","c",
        "l","i","e","n","t"," ","m","e","n","t","i","o","n","n","e"," ","d",
        "e","s"," ","a","l","l","e","r","g","i","e","s"," ","s","p","é","c",
        "i","f","i","q","u","e","s",","," ","V","É","R","I","F","I","E"," ",
        "L","A"," ","C","O","M","P","A","T","I","B","I","L","I","T","É",
        "\n","-"," ","S","u","g","g","è","r","e"," ","d","e","s"," ","a",
        "l","t","e","r","n","a","t","i","v","e","s"," ","s","a","n","s"," ",
        "a","l","l","e","r","g","è","n","e","s"," ","s","i"," ","n","é","c",
        "e","s","s","a","i","r","e","\n","-"," ","U","t","i","l","i","s",
        "e"," ","l","e"," ","f","o","r","m","a","t",":"," ","\"","U+26A0",
        "U+FE0F"," ","A","l","l","e","r","g","è","n","e","s",":"," ","[",
        "l","i","s","t","e","]","\""," ","o","u"," ","\"","U+2705"," ","A",
        "u","c","u","n"," ","a","l","l","e","r","g","è","n","e"," ","m","a",
        "j","e","u","r"," ","d","é","t","e","c","t","é","\"","\n","-"," ",
        "R","e","s","t","e"," ","d","a","n","s"," ","l","e"," ","r","ô","l",
        "e"," ","d","'","u","n"," ","a","s","s","i","s","t","a","n","t"," ",
        "d","e"," ","g","r","o","u","p","e"," ","d","e"," ","p","i","z","z",
        "e","r","i","a","s">>,
    \* line 239
    system_role_single |->
      <<"T","u"," ","e","s"," ","u","n"," ","a","s","s","i","s","t","a","n",
        "t"," ","d","e"," ","p","i","z","z","e","r","i","a","."," ","R","é",
        "p","o","n","d","s"," ","e","n"," ","f","r","a","n","ç","a","i","s",
        ","," ","s","o","i","s"," ","p","r","é","c","i","s"," ","e","t"," ",
        "u","t","i","l","e",".">>,
    \* lines 240-250
    instructions_single |->
      <<"I","N","S","T","R","U","C","T","I","O","N","S",":","\n","-"," ",
        "R","é","p","o","n","d","s"," ","u","n","i","q","u","e","m","e","n",
        "t"," ","e","n"," ","f","r","a","n","ç","a","i","s","\n","-"," ",
        "B","a","s","e","-","t","o","i"," ","u","n","i","q","u","e","m","e",
        "n","t"," ","s","u","r"," ","l","e","s"," ","i","n","f","o","r","m",
        "a","t","i","o","n","s"," ","d","u"," ","c","o","n","t","e","x","t",
        "e"," ","f","o","u","r","n","i","\n","-"," ","S","i"," ","l","'",
        "i","n","f","o","r","m","a","t","i","o","n"," ","n","'","e","s","t",
        " ","p","a","s"," ","d","a","n","s"," ","l","e"," ","c","o","n","t",
        "e","x","t","e",","," ","d","i","s","-","l","e"," ","c","l","a","i",
        "r","e","m","e","n","t","\n","-"," ","P","R","I","O","R","I","T",
        "É"," ","A","B","S","O","L","U","E",":"," ","T","O","U","J","O","U",
        "R","S"," ","i","n","c","l","u","r","e"," ","l","e","s"," ","i","n",
        "f","o","r","m","a","t","i","o","n","s"," ","d","'","a","l","l","e",
        "r","g","è","n","e","s"," ","p","o","u","r"," ","c","h","a","q","u",
        "e"," ","p","i","z","z","a"," ","m","e","n","t","i","o","n","n","é",
        "e","\n","-"," ","S","i"," ","d","e","s"," ","a","l","l","e","r",
        "g","è","n","e","s"," ","s","o","n","t"," ","d","é","t","e","c","t",
        "é","s",","," ","A","V","E","R","T","I","S"," ","C","L","A","I","R",
        "E","M","E","N","T"," ","l","e"," ","c","l","i","e","n","t"," ","a",
        "v","e","c"," ","d","e","s"," ","e","m","o","j","i","s"," ",
        "U+26A0","U+FE0F","\n","-"," ","S","i"," ","l","e"," ","c","l","i",
        "e","n","t"," ","m","e","n","t","i","o","n","n","e"," ","d","e","s",
        " ","a","l","l","e","r","g","i","e","s"," ","s","p","é","c","i","f",
        "i","q","u","e","s",","," ","V","É","R","I","F","I","E"," ","L","A",
        " ","C","O","M","P","A","T","I","B","I","L","I","T","É","\n","-",
        " ","U","t","i","l","i","s","e"," ","l","e"," ","f","o","r","m","a",
        "t",":"," ","\"","U+26A0","U+FE0F"," ","A","l","l","e","r","g","è",
        "n","e","s",":"," ","[","l","i","s","t","e","]","\""," ","o","u",
        " ","\"","U+2705"," ","A","u","c","u","n"," ","a","l","l","e","r",
        "g","è","n","e"," ","m","a","j","e","u","r"," ","d","é","t","e","c",
        "t","é","\"","\n","-"," ","S","u","g","g","è","r","e"," ","d","e",
        "s"," ","a","l","t","e","r","n","a","t","i","v","e","s"," ","s","a",
        "n","s"," ","a","l","l","e","r","g","è","n","e","s"," ","s","i"," ",
        "n","é","c","e","s","s","a","i","r","e","\n","-"," ","S","o","i",
        "s"," ","p","r","é","c","i","s"," ","e","t"," ","u","t","i","l","e",
        "\n","-"," ","R","e","s","t","e"," ","d","a","n","s"," ","l","e",
        " ","r","ô","l","e"," ","d","'","u","n"," ","a","s","s","i","s","t",
        "a","n","t"," ","d","e"," ","p","i","z","z","e","r","i","a">>,
    \* line 184
    multi_header |->
      <<"I","N","F","O","R","M","A","T","I","O","N","S"," ","D","E"," ","N",
        "O","S"," ","D","I","F","F","É","R","E","N","T","S"," ","S","E","R",
        "V","I","C","E","S",":","\n","\n">>,
    \* line 200
    single_header |->
      <<"I","N","F","O","R","M","A","T","I","O","N","S"," ","D","E"," ">>,
    \* line 199
    default_company |->
      <<"R","e","s","t","a","u","r","a","n","t">>,
    \* line 186
    pizza_sign |->
      <<"U+1F355"," ">>,
    \* lines 188-195
    indent |->
      <<" "," "," ">>,
    \* lines 193, 208
    detected |->
      <<"U+26A0","U+FE0F"," ","A","L","L","E","R","G","È","N","E","S"," ",
        "D","É","T","E","C","T","É","S",":"," ">>,
    \* lines 195, 210
    none_detected |->
      <<"U+2705"," ","A","U","C","U","N"," ","A","L","L","E","R","G","È",
        "N","E"," ","M","A","J","E","U","R"," ","D","É","T","E","C","T","É">>,
    \* line 216
    list_header |->
      <<"\n","L","I","S","T","E"," ","C","O","M","P","L","È","T","E"," ",
        "D","E","S"," ","A","L","L","E","R","G","È","N","E","S"," ","À"," ",
        "S","U","R","V","E","I","L","L","E","R",":","\n">>,
    \* line 221
    attention |->
      <<"U+26A0","U+FE0F"," ","A","T","T","E","N","T","I","O","N",":"," ",
        "L","e"," ","c","l","i","e","n","t"," ","a"," ","m","e","n","t","i",
        "o","n","n","é"," ","ê","t","r","e"," ","a","l","l","e","r","g","i",
        "q","u","e"," ","à",":"," ">>,
    \* line 260
    answer_label |->
      <<"R","É","P","O","N","S","E",":">>,
    \* lines 192, 215, 221
    comma |->
      <<","," ">> ]

\* config.allergen.allergens_list, each name as text (config.py, 40-55)
allergens_list ==
  << <<"G","l","u","t","e","n">>,
     <<"C","r","u","s","t","a","c","é","s">>,
     <<"O","e","u","f","s">>,
     <<"P","o","i","s","s","o","n","s">>,
     <<"A","r","a","c","h","i","d","e","s">>,
     <<"S","o","j","a">>,
     <<"L","a","i","t">>,
     <<"F","r","u","i","t","s"," ","à"," ","c","o","q","u","e">>,
     <<"C","é","l","e","r","i">>,
     <<"M","o","u","t","a","r","d","e">>,
     <<"S","é","s","a","m","e">>,
     <<"S","u","l","f","i","t","e","s">>,
     <<"L","u","p","i","n">>,
     <<"M","o","l","l","u","s","q","u","e","s">> >>

\* the characters of an allergen category's name
CategoryText(a) ==
  allergens_list[CHOOSE i \in 1..Len(allergens_list) : AllergenCategories[i] = a]

\* sorted(...) of the category names, by code point
SortedCategories ==
  << "Arachides", "Crustacés", "Céleri", "Fruits à coque", "Gluten", "Lait", "Lupin", "Mollusques", "Moutarde", "Oeufs", "Poissons", "Soja", "Sulfites", "Sésame" >>

\* line 256, and the separator of line 315
QuestionLabel ==
  <<"Q","U","E","S","T","I","O","N"," ","D","U"," ","C","L","I","E","N","T",
    ":"," ">>

\* line 314
QuestionMark ==
  <<"Q","U","E","S","T","I","O","N"," ","D","U"," ","C","L","I","E","N","T",
    ":">>

\* line 315
InstructionsMark ==
  <<"I","N","S","T","R","U","C","T","I","O","N","S",":">>

\* line 313
DefaultQuestion ==
  <<"v","o","t","r","e"," ","q","u","e","s","t","i","o","n">>

\* str.upper() on the names of the model
upper(s) == [i \in 1..Len(s) |-> UpperChar(s[i])]

\* sep.join(parts)
RECURSIVE Join(_, _)
Join(parts, sep) ==
  IF parts = <<>> THEN <<>>
  ELSE IF Len(parts) = 1 THEN parts[1]
  ELSE parts[1] \o sep \o Join(Tail(parts), sep)

RECURSIVE Concat(_)
Concat(parts) == IF parts = <<>> THEN <<>> ELSE Head(parts) \o Concat(Tail(parts))

\* get_allergen_info_for_context for one company (lines 579-588): the
\* categories detected in any of its contexts, sorted
company_allergens(group) ==
  LET found == UNION { Range(detect_allergens_in_text(group.contexts[c])) :
                       c \in 1..Len(group.contexts) }
  IN  SelectSeq(SortedCategories, LAMBDA a : a \in found)

JoinCategories(cats) == Join([i \in 1..Len(cats) |-> CategoryText(cats[i])], PromptTemplate.comma)

\* lines 185-196: the block of one company in the multi-company format
multi_company_block(group) ==
  PromptTemplate.pizza_sign \o upper(group.company) \o <<":", "\n">>
    \o Concat([c \in 1..Len(group.contexts) |-> PromptTemplate.indent \o group.contexts[c] \o <<"\n">>])
    \o (IF company_allergens(group) # <<>>
        THEN PromptTemplate.indent \o PromptTemplate.detected \o JoinCategories(company_allergens(group)) \o <<"\n">>
        ELSE PromptTemplate.indent \o PromptTemplate.none_detected \o <<"\n">>)
    \o <<"\n">>

\* lines 198-210: the single-company format; the allergen line is that of
\* the first company
single_company_text(context_by_company) ==
  LET company_name == IF context_by_company # <<>> THEN context_by_company[1].company
                      ELSE PromptTemplate.default_company
      allergens    == IF context_by_company # <<>>
                      THEN company_allergens(context_by_company[1]) ELSE <<>>
  IN  PromptTemplate.single_header \o upper(company_name) \o <<":", "\n", "\n">>
        \o Concat([g \in 1..Len(context_by_company) |->
                     Concat([c \in 1..Len(context_by_company[g].contexts) |->
                               context_by_company[g].contexts[c] \o <<"\n", "\n">>])])
        \o (IF allergens # <<>>
            THEN PromptTemplate.detected \o JoinCategories(allergens) \o <<"\n", "\n">>
            ELSE PromptTemplate.none_detected \o <<"\n", "\n">>)

\* lines 182-221: context_text
context_text(user_question, context_data) ==
  LET user_allergens == extract_user_allergens_from_question(user_question)
  IN  (IF context_data.has_multiple_companies
       THEN PromptTemplate.multi_header
              \o Concat([g \in 1..Len(context_data.context_by_company) |->
                           multi_company_block(context_data.context_by_company[g])])
       ELSE single_company_text(context_data.context_by_company))
        \o PromptTemplate.list_header \o Join(allergens_list, PromptTemplate.comma) \o <<"\n", "\n">>
        \o (IF user_allergens # <<>>
            THEN PromptTemplate.attention \o JoinCategories(user_allergens) \o <<"\n", "\n">>
            ELSE <<>>)

\* lines 252-262: the prompt text
create_prompt_text(user_question, context_data) ==
  (IF context_data.has_multiple_companies THEN PromptTemplate.system_role_multi ELSE PromptTemplate.system_role_single)
    \o <<"\n", "\n">> \o context_text(user_question, context_data)
    \o <<"\n", "\n">> \o QuestionLabel \o user_question
    \o <<"\n", "\n">>
    \o (IF context_data.has_multiple_companies THEN PromptTemplate.instructions_multi ELSE PromptTemplate.instructions_single)
    \o <<"\n", "\n">> \o PromptTemplate.answer_label

\* the position of the first occurrence of sub in s, 0 when there is none
Find(sub, s) ==
  IF Contains(sub, s)
  THEN CHOOSE j \in 1..Len(s) :
          /\ SubSeq(s, j, j + Len(sub) - 1) = sub
          /\ \A k \in 1..(j - 1) : SubSeq(s, k, k + Len(sub) - 1) # sub
  ELSE 0

\* s.split(sep)[1]: what lies between the first occurrence of sep and the
\* next; an IndexError when s does not contain sep
SplitSecond(s, sep) ==
  IF ~Contains(sep, s) THEN [raised |-> TRUE, text |-> <<>>]
  ELSE [raised |-> FALSE,
        text |-> SplitHead(SubSeq(s, Find(sep, s) + Len(sep), Len(s)), sep)]

WhiteSpace == {" ", "\n", "\t", "\r"}

\* str.strip()
RECURSIVE StripText(_)
StripText(s) ==
  IF s = <<>> THEN <<>>
  ELSE IF Head(s) \in WhiteSpace THEN StripText(Tail(s))
  ELSE IF s[Len(s)] \in WhiteSpace THEN StripText(SubSeq(s, 1, Len(s) - 1))
  ELSE s

\* _fallback_response, lines 313-315: the question cut out of the prompt
fallback_question(prompt) ==
  IF Contains(QuestionMark, prompt)
  THEN LET part == SplitSecond(prompt, QuestionLabel)
       IN  [raised |-> part.raised,
            question |-> StripText(SplitHead(part.text, InstructionsMark))]
  ELSE [raised |-> FALSE, question |-> DefaultQuestion]

----------------------------------------------------------------------------
(* Specification of the prompt round trip: a question and a retrieved      *)
(* context go through create_prompt, and _fallback_response recovers the   *)
(* question from the prompt.                                                *)

PromptQuestions ==
  { <<"v","o","s"," ","p","i","z","z","a","s">>,
    <<" ","v","o","s"," ","p","i","z","z","a","s"," ">>,
    <<"a","l","l","e","r","g","i","q","u","e"," ","a","u"," ","l","a","i","t">>,
    <<"p","r","i","x"," ","?"," ">> \o QuestionLabel \o <<"m","e","n","u">>,
    <<"m","e","n","u"," ">> \o InstructionsMark \o <<" ","b","r","e","f">>,
    InstructionsMark \o <<" ","p","r","i","x">> }

PromptSnippets ==
  { <<"[","P","a","g","e"," ","1","]"," ","p","i","z","z","a"," ","t","h","o","n">>,
    <<"[","P","a","g","e"," ","1","]"," ","m","o","z","z","a","r","e","l","l","a">>,
    <<"[","P","a","g","e"," ","2","]"," ","F","A","Q"," ">> \o QuestionLabel
       \o <<"h","o","r","a","i","r","e","s">>,
    <<"[","P","a","g","e"," ","2","]"," ">> \o InstructionsMark
       \o <<" ","c","u","i","r","e">> }

\* context_data as get_context returns it (lines 105-109), for no company,
\* one company or two
PromptContexts ==
  { [context_by_company |-> groups, has_multiple_companies |-> Len(groups) > 1] :
    groups \in {<<>>}
      \cup { << [company |-> CompanyNames["anchor_pizza"], contexts |-> <<s>>] >> :
             s \in PromptSnippets }
      \cup { << [company |-> CompanyNames["anchor_pizza"], contexts |-> <<s>>],
                [company |-> CompanyNames["marco_fuso"],
                 contexts |-> << <<"[","P","a","g","e"," ","1","]"," ",
                                   "b","a","s","i","l","i","c">> >>] >> :
             s \in PromptSnippets } }

InitPrompt ==
  /\ collections = [d \in DocUniverse |-> NoHandle]
  /\ storage = [d \in DocUniverse |-> AbsentCollection]
  /\ call \in { [op |-> "input", user_question |-> q, context_data |-> c] :
                q \in PromptQuestions, c \in PromptContexts }
  /\ result = [op |-> "none"]
  /\ IdleText

CreatePrompt ==
  /\ call.op = "input"
  /\ call' = [call EXCEPT !.op = "create_prompt"]
  /\ result' = [op |-> "create_prompt",
                prompt |-> create_prompt_text(call.user_question, call.context_data)]
  /\ UNCHANGED <<text, detected, extracted, tpc, collections, storage>>

FallbackQuestion ==
  /\ call.op = "create_prompt"
  /\ call' = [call EXCEPT !.op = "fallback_response"]
  /\ result' = [op |-> "fallback_response", prompt |-> result.prompt,
                recovered |-> fallback_question(result.prompt)]
  /\ UNCHANGED <<text, detected, extracted, tpc, collections, storage>>

NextPrompt == CreatePrompt \/ FallbackQuestion

SpecPrompt == InitPrompt /\ [][NextPrompt]_vars

----------------------------------------------------------------------------
(* Claims about the pipeline, checked under Spec *)

\* the snippet get_context formats for a stored chunk
SnippetOf(chunk) ==
  <<"[","P","a","g","e"," ">> \o PageText(chunk.page) \o <<"]"," ">> \o chunk.content

\* the snippet is the formatted text of a chunk stored in d's collection
SnippetFrom(snippet, d) ==
  \E i \in 1..Len(storage[d].items) : snippet = SnippetOf(storage[d].items[i])

(* C1: for every document selection and every max_chunks >= 0, the groups  *)
(* returned by get_context hold at most max_chunks snippets in total, and  *)
(* no group more than the per-company cap: max(2, max_chunks // 2) when no *)
(* document is requested, max_chunks otherwise.                             *)
C1_ContextWithinCaps ==
  call.op = "get_context" =>
    LET groups == result.context_by_company
        cap == IF call.document_names.kind = "none"
               THEN (IF call.max_chunks \div 2 > 2 THEN call.max_chunks \div 2 ELSE 2)
               ELSE call.max_chunks
    IN  /\ SumLen(groups) <= call.max_chunks
        /\ \A g \in 1..Len(groups) : Len(groups[g].contexts) <= cap
        /\ \A g, h \in 1..Len(groups) : groups[g].company = groups[h].company => g = h

\* a broad query that fills its budget, one company at its cap
C1_Witness ==
  /\ call.op = "get_context"
  /\ call.document_names.kind = "none"
  /\ call.max_chunks >= 3
  /\ SumLen(result.context_by_company) = call.max_chunks
  /\ \E g \in 1..Len(result.context_by_company) :
        Len(result.context_by_company[g].contexts) = 2

C3_NoRawException ==
  call.op = "answer_question" =>
    /\ result.status = "success"
    /\ \A k \in 1..Len(result.answer) : result.answer[k].kind # "error"

\* embedding and chat both fail, the store refuses a collection
C3_Witness ==
  /\ call.op = "answer_question"
  /\ call.embed.raised
  /\ call.chat.raised
  /\ call.faults # {}
  /\ result.status = "success"

\* the same with a document name the registry does not know
C3_WitnessUnknownDocument ==
  /\ C3_Witness
  /\ call.document_names = OneDocument(UnknownDoc)

(* C4: a successful answer with a non-empty context ends with the allergen *)
(* summary, one line per company of context_used carrying the allergens    *)
(* detected in that company's snippets, followed by the compatibility      *)
(* analysis (one line per company) whenever the user allergens are not     *)
(* empty; for any model reply and in fallback mode.                         *)
C4_SummaryAppended ==
  (call.op = "answer_question" /\ result.status = "success"
      /\ result.context_used # <<>>) =>
    LET answer == result.answer
        n == Len(answer)
        s == IF result.user_allergens # <<>> THEN n - 1 ELSE n
        groups == result.context_used
    IN  /\ s >= 2
        /\ answer[s].kind = "summary"
        /\ Len(answer[s].lines) = Len(groups)
        /\ \A g \in 1..Len(groups) :
              /\ answer[s].lines[g].company = groups[g].company
              /\ answer[s].lines[g].allergens =
                   UNION { Range(detect_allergens_in_text(groups[g].contexts[c])) :
                           c \in 1..Len(groups[g].contexts) }
        /\ result.user_allergens # <<>> =>
              /\ answer[n].kind = "analysis"
              /\ Len(answer[n].lines) = Len(groups)
              /\ \A g \in 1..Len(groups) : answer[n].lines[g].company = groups[g].company
        /\ \A k \in 1..(s - 1) : answer[k].kind \in {"llm", "fallback"}

\* fallback mode, two companies in the context, user allergens known
C4_Witness ==
  /\ call.op = "answer_question"
  /\ call.chat.raised
  /\ result.status = "success"
  /\ Len(result.context_used) = 2
  /\ result.user_allergens # <<>>
  /\ result.answer[Len(result.answer)].kind = "analysis"

RECURSIVE SumSeq(_)
SumSeq(s) == IF s = <<>> THEN 0 ELSE Head(s) + SumSeq(Tail(s))

(* C5: search returns the collected hits in ascending order of distance,   *)
(* exactly n_results of them (all when fewer were collected), each a chunk *)
(* of the collection of the document it is tagged with.                     *)
C5_SearchSortedTruncatedTagged ==
  call.op = "search" =>
    LET hits == result.results
        n == call.n_results
        e == IF call.embed.raised THEN 0 ELSE call.embed.vector
        searched == { d \in Range(result.searched_documents) : d \notin Range(result.warnings) }
        collected == SumSeq([i \in 1..Len(result.searched_documents) |->
                       LET d == result.searched_documents[i]
                       IN  IF d \in Range(result.warnings) THEN 0
                           ELSE IF n < Len(storage[d].items) THEN n
                           ELSE Len(storage[d].items)])
    IN  /\ \A i, j \in 1..Len(hits) : i < j => hits[i].distance <= hits[j].distance
        /\ Len(hits) = (IF collected < n THEN collected ELSE n)
        /\ \A i \in 1..Len(hits) :
              /\ hits[i].document_name \in searched
              /\ \E c \in 1..Len(storage[hits[i].document_name].items) :
                    LET chunk == storage[hits[i].document_name].items[c]
                    IN  /\ hits[i].content = chunk.content
                        /\ hits[i].metadata.page = chunk.page
                        /\ hits[i].metadata.chunk_index = chunk.chunk_index
                        /\ hits[i].distance = (e - chunk.embedding) * (e - chunk.embedding)

\* two collections contribute and the merged list is cut
C5_Witness ==
  /\ call.op = "search"
  /\ call.n_results >= 2
  /\ Len(result.results) = call.n_results
  /\ \E i, j \in 1..Len(result.results) :
        result.results[i].document_name # result.results[j].document_name
  /\ Len(storage["anchor_pizza"].items) + Len(storage["marco_fuso"].items) > call.n_results

(* C6: when one target collection fails, search returns, and its hits are  *)
(* those of a search over the other targets alone.                          *)
C6_FailingCollectionSkipped ==
  call.op = "search" =>
    LET others == SelectSeq(result.searched_documents,
                            LAMBDA d : d \notin Range(result.warnings))
    IN  result.results =
          search(Store, call.embed, DocumentList(others), call.n_results, {}).results

\* one of two targets fails and the other contributes hits
C6_Witness ==
  /\ call.op = "search"
  /\ Len(result.searched_documents) = 2
  /\ Len(result.warnings) = 1
  /\ result.results # <<>>

(* C7: get_or_create_collection is idempotent: every handle for a document *)
(* refers to the one collection of that document; a collection persisted   *)
(* by an earlier run keeps its identity and its chunks; a collection is    *)
(* created at most once per document.                                       *)
C7_GetOrCreateIdempotent ==
  \A d \in DocUniverse :
     /\ storage[d].uid <= 1
     /\ storage[d].born = "earlier" =>
           /\ storage[d].exists
           /\ SubSeq(storage[d].items, 1, Len(Corpus(d))) = Corpus(d)
     /\ collections[d] # NoHandle =>
           storage[d].exists /\ collections[d] = storage[d].uid
     /\ (call.op = "get_or_create_collection" /\ call.document_name = d
            /\ ~result.raised) =>
           result.handle = collections[d]

\* a second call for a document returns the cached handle
C7_Witness ==
  /\ call.op = "get_or_create_collection"
  /\ result.path = "cached"
  /\ storage[call.document_name].born = "now"

\* a persisted collection is opened
C7_WitnessOpened ==
  /\ call.op = "get_or_create_collection"
  /\ result.path = "opened"

\* the question names the company of document d with an explicit pattern
ExplicitlyNamed(d, question) ==
  ContainsAny(explicit_patterns(lower(get_company_name(d))), lower(question))

(* C8: without document ids and with a company named explicitly in the     *)
(* question, only that company's collection is searched during the call,   *)
(* and every company found and every snippet of context_used belongs to    *)
(* that document.                                                           *)
C8_RetrievalRestrictedToNamedCompany ==
  \A d \in Range(DocNames) :
    (call.op = "answer_question" /\ call.document_names.kind = "none"
        /\ ExplicitlyNamed(d, call.question)) =>
      /\ \A i \in 1..Len(result.collections_searched) : result.collections_searched[i] = d
      /\ \A i \in 1..Len(result.companies_found) :
            result.companies_found[i] = get_company_name(d)
      /\ \A g \in 1..Len(result.context_used) :
            \A c \in 1..Len(result.context_used[g].contexts) :
               SnippetFrom(result.context_used[g].contexts[c], d)

(* The part of C8 about the result record alone, which holds *)
C8_RecordRestrictedToNamedCompany ==
  \A d \in Range(DocNames) :
    (call.op = "answer_question" /\ call.document_names.kind = "none"
        /\ ExplicitlyNamed(d, call.question)) =>
      /\ \A i \in 1..Len(result.companies_found) :
            result.companies_found[i] = get_company_name(d)
      /\ \A g \in 1..Len(result.context_used) :
            \A c \in 1..Len(result.context_used[g].contexts) :
               SnippetFrom(result.context_used[g].contexts[c], d)

----------------------------------------------------------------------------
(* The greedy selection of get_context, checked under Spec.                 *)

\* the hit list the call walked: the search of line 67 on the same inputs
C20_Hits ==
  IF call.op = "get_context"
  THEN search(Store, call.embed, call.document_names,
              IF call.document_names.kind = "none" THEN call.max_chunks * 2 ELSE call.max_chunks,
              call.faults).results
  ELSE <<>>

C20_Cap ==
  IF call.document_names.kind = "none"
  THEN (IF call.max_chunks \div 2 > 2 THEN call.max_chunks \div 2 ELSE 2)
  ELSE call.max_chunks

HitCompany(hit) == get_company_name(hit.document_name)

\* K is the greedy selection over hits: a hit is in K exactly when fewer
\* than max_chunks hits before it are in K and fewer than cap of them are of
\* its company
GreedySelection(K, hits, cap, max_chunks) ==
  \A i \in 1..Len(hits) :
     i \in K <=>
       /\ Cardinality({ j \in K : j < i }) < max_chunks
       /\ Cardinality({ j \in K : j < i /\ HitCompany(hits[j]) = HitCompany(hits[i]) }) < cap

\* the groups list exactly the hits of K: one group per company with a kept
\* hit, in the order the companies were first kept, each with the snippets
\* of its kept hits in the order of the hit list
GroupsOfSelection(groups, K, hits) ==
  LET Of(c) == { i \in K : HitCompany(hits[i]) = c }
      First(c) == CHOOSE i \in Of(c) : \A j \in Of(c) : i <= j
  IN  /\ \A i \in K : \E g \in 1..Len(groups) : groups[g].company = HitCompany(hits[i])
      /\ \A g \in 1..Len(groups) :
           /\ Of(groups[g].company) # {}
           /\ Len(groups[g].contexts) = Cardinality(Of(groups[g].company))
           /\ \A i \in Of(groups[g].company) :
                groups[g].contexts[Cardinality({ j \in Of(groups[g].company) : j <= i })]
                  = <<"[","P","a","g","e"," ">> \o PageText(hits[i].metadata.page)
                      \o <<"]"," ">> \o hits[i].content
      /\ \A g, h \in 1..Len(groups) :
           g < h => First(groups[g].company) < First(groups[h].company)

\* C20: get_context keeps exactly the greedy selection over the hit list
\* sorted by ascending distance: a hit is kept iff its company holds fewer
\* kept hits than the per-company cap and fewer than max_chunks hits are kept
\* so far; a skipped hit is not replaced; the groups are in first-seen
\* company order and the snippets of a group in ascending distance order.
C20_GreedySelection ==
  call.op = "get_context" =>
    /\ \A i \in 1..(Len(C20_Hits) - 1) : C20_Hits[i].distance <= C20_Hits[i + 1].distance
    /\ \E K \in SUBSET (1..Len(C20_Hits)) :
         /\ GreedySelection(K, C20_Hits, C20_Cap, call.max_chunks)
         /\ GroupsOfSelection(result.context_by_company, K, C20_Hits)

\* a hit is skipped at its company's cap and a later hit of another company
\* is kept
C20_Witness ==
  /\ call.op = "get_context"
  /\ \E K \in SUBSET (1..Len(C20_Hits)) :
       /\ GreedySelection(K, C20_Hits, C20_Cap, call.max_chunks)
       /\ GroupsOfSelection(result.context_by_company, K, C20_Hits)
       /\ \E i, j \in 1..Len(C20_Hits) : i < j /\ i \notin K /\ j \in K

\* the walk stops at max_chunks with hits left over
C20_WitnessStop ==
  /\ call.op = "get_context"
  /\ call.max_chunks > 0
  /\ SumLen(result.context_by_company) = call.max_chunks
  /\ Len(C20_Hits) > call.max_chunks
  /\ Len(result.context_by_company) = 2

\* C21: for a query that names no document, with max_chunks >= 2 and the
\* store answering, whenever the collections of at least two registry
\* documents (of different companies) hold chunks, get_context returns
\* groups of at least two companies.
C21_TwoCompaniesRepresented ==
  (/\ call.op = "get_context"
   /\ call.document_names.kind = "none"
   /\ call.max_chunks >= 2
   /\ call.faults = {}
   /\ \E d, e \in Range(DocNames) :
        /\ get_company_name(d) # get_company_name(e)
        /\ storage[d].items # <<>>
        /\ storage[e].items # <<>>)
  => Len(result.context_by_company) >= 2

\* C21 when the budget leaves room after one company reached its cap
C21_TwoCompaniesWhenBudgetAboveCap ==
  (/\ call.op = "get_context"
   /\ call.document_names.kind = "none"
   /\ call.max_chunks >= 3
   /\ call.faults = {}
   /\ \E d, e \in Range(DocNames) :
        /\ get_company_name(d) # get_company_name(e)
        /\ storage[d].items # <<>>
        /\ storage[e].items # <<>>)
  => Len(result.context_by_company) >= 2

----------------------------------------------------------------------------
(* Claims about the answer composer, checked under Spec.                    *)

\* C23: within one answer_question call ollama.chat is called at most once;
\* when that call fails the answer is the fallback response and no second
\* chat call was made.
C23_NoRetry ==
  call.op = "answer_question" =>
    /\ result.chat_calls <= 1
    /\ call.chat.raised =>
         /\ result.chat_calls = 1
         /\ result.status = "success" => result.answer[1].kind = "fallback"

C23_Witness ==
  /\ call.op = "answer_question"
  /\ call.chat.raised
  /\ result.chat_calls = 1
  /\ result.status = "success"
  /\ result.answer[1].kind = "fallback"

\* the snippet appears in the group of the company in groups
SnippetIn(groups, company, snippet) ==
  \E g \in 1..Len(groups) :
     /\ groups[g].company = company
     /\ \E c \in 1..Len(groups[g].contexts) : groups[g].contexts[c] = snippet

\* C27: in degraded mode every snippet quoted in the fallback text appears
\* in context_used of the same result record.
C27_FallbackQuotesContextUsed ==
  (/\ call.op = "answer_question"
   /\ result.status = "success"
   /\ result.answer[1].kind = "fallback")
  => \A g \in 1..Len(result.answer[1].quoted) :
       \A c \in 1..Len(result.answer[1].quoted[g].contexts) :
          SnippetIn(result.context_used, result.answer[1].quoted[g].company,
                    result.answer[1].quoted[g].contexts[c])

\* C29: whenever answer_question reports a non-empty user_allergens, the
\* prompt handed to the model carries the warning line naming exactly those
\* categories.
C29_PromptWarnsReportedAllergens ==
  (call.op = "answer_question" /\ result.user_allergens # <<>>)
  => result.prompt.warning = result.user_allergens

\* C29 for the calls that leave the detection to answer_question
C29_PromptWarnsDetectedAllergens ==
  (call.op = "answer_question" /\ ~call.user_allergens.given /\ result.user_allergens # <<>>)
  => result.prompt.warning = result.user_allergens

C29_WitnessDetected ==
  /\ call.op = "answer_question"
  /\ ~call.user_allergens.given
  /\ result.user_allergens # <<>>
  /\ result.prompt.warning = result.user_allergens

----------------------------------------------------------------------------
(* Claims about search, checked under Spec.                                 *)

\* the stored chunk is among the hits
Returned26(hits, d, chunk) ==
  \E h \in 1..Len(hits) :
     /\ hits[h].document_name = d
     /\ hits[h].metadata.page = chunk.page
     /\ hits[h].metadata.chunk_index = chunk.chunk_index
     /\ hits[h].content = chunk.content

\* the squared distance of a stored chunk to the query of the call
QueryDistance(chunk) ==
  LET q == IF call.embed.raised THEN 0 ELSE call.embed.vector
  IN  (q - chunk.embedding) * (q - chunk.embedding)

\* the target collections the store did not refuse during the call
SearchedWell ==
  { d \in Range(IF call.document_names.kind = "none" THEN DocNames ELSE call.document_names.ids) :
      /\ storage[d].exists
      /\ \A k \in FaultKinds : <<d, k>> \notin call.faults }

\* C26: the list search returns is the global top n_results: a chunk of a
\* collection that was searched successfully is left out only when the list
\* is full, and then it is no nearer to the query than any returned hit.
C26_GlobalTopN ==
  (call.op = "search" /\ call.n_results > 0) =>
    \A d \in SearchedWell :
      \A i \in 1..Len(storage[d].items) :
         ~Returned26(result.results, d, storage[d].items[i]) =>
           /\ Len(result.results) = call.n_results
           /\ \A h \in 1..Len(result.results) :
                result.results[h].distance <= QueryDistance(storage[d].items[i])

\* two collections searched, the list full, a chunk of each returned and a
\* chunk of the first one left out
C26_Witness ==
  /\ call.op = "search"
  /\ call.n_results >= 2
  /\ Len(result.results) = call.n_results
  /\ \E h, g \in 1..Len(result.results) :
       result.results[h].document_name # result.results[g].document_name
  /\ \E i \in 1..Len(storage[DocNames[1]].items) :
       ~Returned26(result.results, DocNames[1], storage[DocNames[1]].items[i])


Recovered30 == call.op = "fallback_response"

MarkFree(t) == ~Contains(QuestionMark, t) /\ ~Contains(InstructionsMark, t)

ContextTexts(context_data) ==
  UNION { Range(context_data.context_by_company[g].contexts) :
          g \in 1..Len(context_data.context_by_company) }

\* C30: the question _fallback_response recovers from the prompt is the
\* question create_prompt embedded in it, up to surrounding white space,
\* whatever the question and the retrieved chunks contain; recovering it
\* never raises
C30_RecoversEmbeddedQuestion ==
  Recovered30 =>
     /\ ~result.recovered.raised
     /\ result.recovered.question = StripText(call.user_question)

\* C30, the part that holds: the recovery never raises, and it returns the
\* embedded question when neither the question nor a chunk holds a marker
C30_RecoversMarkFreeQuestion ==
  Recovered30 =>
     /\ ~result.recovered.raised
     /\ (MarkFree(call.user_question)
           /\ (\A s \in ContextTexts(call.context_data) : MarkFree(s))
         => result.recovered.question = StripText(call.user_question))

\* C30: a question recovered although a chunk of the context holds the
\* instructions mark
C30_WitnessMarkInChunk ==
  /\ Recovered30
  /\ \E s \in ContextTexts(call.context_data) : Contains(InstructionsMark, s)
  /\ result.recovered.question = StripText(call.user_question)
----------------------------------------------------------------------------
(* Claims about the allergen functions, checked under SpecText *)

(* C9: detect_allergens_in_text returns a category if and only if one of   *)
(* the category's keywords occurs in the text as a substring, compared     *)
(* case-insensitively (both sides folded to lower case).                    *)
C9_DetectIffKeywordOccurs ==
  tpc = "detected" =>
    \A i \in 1..Len(get_allergen_keywords) :
       LET entry == get_allergen_keywords[i]
       IN  (entry.allergen \in Range(detected))
             <=> \E k \in 1..Len(entry.keywords) :
                    Contains(lower(entry.keywords[k]), lower(text))

C11_LiberalFallback ==
  (tpc = "extracted" /\ ContainsAny(allergen_context_indicators, lower(text))) =>
    \A i \in 1..Len(get_allergen_keywords) :
       LET entry == get_allergen_keywords[i]
       IN  ContainsAny(entry.keywords, lower(text)) => entry.allergen \in Range(extracted)

(* The part of C11 that holds: the liberal fallback once one of the four   *)
(* words allergique, allergie, sans, éviter occurs                          *)
C11_LiberalFallbackOnFourWords ==
  (tpc = "extracted" /\ ContainsAny(liberal_context_words, lower(text))) =>
    \A i \in 1..Len(get_allergen_keywords) :
       LET entry == get_allergen_keywords[i]
       IN  ContainsAny(entry.keywords, lower(text)) => entry.allergen \in Range(extracted)
----------------------------------------------------------------------------
(* Claims about company detection, checked under SpecDetect.                *)

GenericWords ==
  { <<"p","i","z","z","a">>, <<"r","e","s","t","a","u","r","a","n","t">>,
    <<"p","i","z","z","e","r","i","a">> }

\* the words of the company's name that are its own
DistinctiveParts(d) == Range(SplitWords(lower(get_company_name(d)))) \ GenericWords

DetectReturned == tpc = "detected" /\ result.op = "detect_company_in_query"

\* C22: _detect_company_in_query returns None or one registry document, the
\* first in registry order whose patterns the query contains; a query that
\* holds none of the company's own name words, only generic words such as
\* "pizza" or "restaurant", does not select that company.
C22_DetectsOnlyNamedCompany ==
  DetectReturned =>
    /\ result.document_name = None \/ InRegistry(result.document_name)
    /\ \A i \in 1..Len(documents) :
         result.document_name = documents[i].name =>
           /\ DocumentMentioned(documents[i].name, lower(text))
           /\ \A j \in 1..(i - 1) : ~DocumentMentioned(documents[j].name, lower(text))
           /\ \E w \in Range(SplitWords(lower(text))) : w \in DistinctiveParts(documents[i].name)
    /\ result.document_name = None =>
         \A i \in 1..Len(documents) : ~DocumentMentioned(documents[i].name, lower(text))

\* the part of C22 about the order: the first mentioned document wins
C22_FirstMentionedWins ==
  DetectReturned =>
    /\ result.document_name = None \/ InRegistry(result.document_name)
    /\ \A i \in 1..Len(documents) :
         result.document_name = documents[i].name =>
           \A j \in 1..(i - 1) : ~DocumentMentioned(documents[j].name, lower(text))

C22_WitnessSecondNamed ==
  /\ DetectReturned
  /\ result.document_name = documents[2].name
  /\ Contains(<<"a","n","c","h","o","r">>, lower(text))


----------------------------------------------------------------------------
(* Claims about the allergen analysis, checked under SpecAnalysis *)

\* the categories detected in the snippets of one group
DetectedIn(group) ==
  UNION { Range(detect_allergens_in_text(group.contexts[c])) : c \in 1..Len(group.contexts) }

(* C12: suggest_alternatives_for_allergens gives one line per company      *)
(* group, in group order: the compatibility note iff no user allergen is   *)
(* among the allergens detected in the group's snippets, otherwise the     *)
(* warning listing exactly the user allergens detected there; no text at   *)
(* all for an empty list of user allergens.                                 *)
C12_OneLinePerCompany ==
  call.op = "suggest_alternatives_for_allergens" =>
    LET groups == call.context_by_company
        lines  == result.suggestions
    IN  IF call.user_allergens = <<>> THEN lines = <<>>
        ELSE /\ Len(lines) = Len(groups)
             /\ \A g \in 1..Len(groups) :
                   /\ lines[g].company = groups[g].company
                   /\ Range(lines[g].conflicting) =
                        Range(call.user_allergens) \cap DetectedIn(groups[g])

\* two groups, one compatible and one with some but not all of the user's allergens
C12_Witness ==
  /\ call.op = "suggest_alternatives_for_allergens"
  /\ Len(result.suggestions) = 2
  /\ \E g, h \in 1..2 :
        /\ result.suggestions[g].conflicting = <<>>
        /\ result.suggestions[h].conflicting # <<>>
        /\ Range(result.suggestions[h].conflicting) # Range(call.user_allergens)

\* no user allergen: no text, whatever the context
C12_WitnessNoAllergen ==
  /\ call.op = "suggest_alternatives_for_allergens"
  /\ call.user_allergens = <<>>
  /\ call.context_by_company # <<>>
  /\ result.suggestions = <<>>

----------------------------------------------------------------------------
(* Claims about chunk_text, checked under SpecChunk *)

\* the value the caller means: the one passed, else the configured one
Meant(arg, default) == IF arg.given THEN arg.value ELSE default

\* the chunks with the first `over` words of every chunk but the first removed
RECURSIVE WithoutOverlap(_, _, _)
WithoutOverlap(chunks, k, over) ==
  IF k > Len(chunks) THEN <<>>
  ELSE LET words == SplitWords(chunks[k])
           kept  == IF k = 1 THEN words ELSE SubSeq(words, over + 1, Len(words))
       IN  kept \o WithoutOverlap(chunks, k + 1, over)

\* the call is one the claim speaks of
C13_InScope ==
  /\ call.op = "chunk_text"
  /\ call.text # <<>>
  /\ Meant(call.chunk_size, ConfigChunkSize) >= 1
  /\ Meant(call.overlap, ConfigOverlap) >= 0
  /\ Meant(call.overlap, ConfigOverlap) < Meant(call.chunk_size, ConfigChunkSize)

(* C13: for a non-empty text, a chunk size >= 1 and an overlap with        *)
(* 0 <= overlap < chunk size (passed, or configured when not passed),       *)
(* chunk_text returns chunks of at most chunk size words which, the words  *)
(* repeated by the overlap removed, concatenate to the words of the text.  *)
C13_ChunksReconstructText ==
  C13_InScope =>
    /\ ~result.raised
    /\ \A k \in 1..Len(result.chunks) :
          Len(SplitWords(result.chunks[k])) <= Meant(call.chunk_size, ConfigChunkSize)
    /\ WithoutOverlap(result.chunks, 1, Meant(call.overlap, ConfigOverlap))
         = SplitWords(call.text)

(* The part of C13 that holds: every overlap but a passed 0 *)
C13_ReconstructWithPositiveOverlap ==
  (C13_InScope /\ call.overlap # Passed(0)) =>
    /\ ~result.raised
    /\ \A k \in 1..Len(result.chunks) :
          Len(SplitWords(result.chunks[k])) <= Meant(call.chunk_size, ConfigChunkSize)
    /\ WithoutOverlap(result.chunks, 1, Meant(call.overlap, ConfigOverlap))
         = SplitWords(call.text)

\* several chunks share words and reconstruct the text
C13_WitnessOverlap ==
  /\ C13_InScope
  /\ call.overlap = Passed(1)
  /\ Len(result.chunks) >= 3
----------------------------------------------------------------------------
(* Claims about DocumentChunker's generic strategy, checked under          *)
(* SpecGeneric.                                                             *)

\* the last n words of ws, all of them when it holds fewer
LastWords(ws, n) == IF n >= Len(ws) THEN ws ELSE SubSeq(ws, Len(ws) - n + 1, Len(ws))

C24_InScope ==
  /\ call.op = "chunk_generic_content"
  /\ call.chunk_size.given /\ call.chunk_overlap.given
  /\ call.chunk_overlap.value < call.chunk_size.value

\* C24: with chunk_overlap < chunk_size, every chunk of the generic
\* strategy holds at most chunk_size words, every chunk after the first
\* begins with the last chunk_overlap words of the chunk before it, and
\* every word of the text appears in some chunk.
C24_WindowsOfWords ==
  C24_InScope =>
    /\ \A k \in 1..Len(result.chunks) :
         Len(SplitWords(result.chunks[k])) <= call.chunk_size.value
    /\ \A k \in 2..Len(result.chunks) :
         LET carried == LastWords(SplitWords(result.chunks[k - 1]), call.chunk_overlap.value)
         IN  /\ Len(SplitWords(result.chunks[k])) >= Len(carried)
             /\ SubSeq(SplitWords(result.chunks[k]), 1, Len(carried)) = carried
    /\ \A i \in 1..Len(SplitWords(call.text)) :
         \E k \in 1..Len(result.chunks) :
            SplitWords(call.text)[i] \in Range(SplitWords(result.chunks[k]))

\* the part of C24 about the trailing window: every word of the text
\* appears in some chunk, in the order of the text
C24_EveryWordChunked ==
  call.op = "chunk_generic_content" =>
    /\ ~result.raised
    /\ \A i \in 1..Len(SplitWords(call.text)) :
         \E k \in 1..Len(result.chunks) :
            SplitWords(call.text)[i] \in Range(SplitWords(result.chunks[k]))

C24_WitnessTrailing ==
  /\ call.op = "chunk_generic_content"
  /\ Len(result.chunks) >= 3
  /\ Len(SplitWords(result.chunks[Len(result.chunks)])) < Len(SplitWords(result.chunks[1]))

----------------------------------------------------------------------------
(* Claims about ingestion, checked under SpecIngest.                        *)

DistinctIds(chunks) ==
  \A a, b \in 1..Len(chunks) : a # b => chunks[a].id # chunks[b].id

\* C14: chunk ids are unique within a collection: no two chunks stored in
\* one collection carry the same id, and no two chunks generated by one
\* add_document call are given the same id, whatever the page numbers of the
\* parsed record's sections.
C14_ChunkIdsUnique ==
  /\ \A d \in DocUniverse : DistinctIds(storage[d].items)
  /\ call.op = "add_document" => DistinctIds(result.generated)

\* The part of C14 about what is stored
C14_StoredIdsUnique == \A d \in DocUniverse : DistinctIds(storage[d].items)

HasNonEmptySection(parsed) ==
  parsed.kind = "ok" /\ \E i \in 1..Len(parsed.sections) : parsed.sections[i].content # <<>>

EntryStored(items, chunk) ==
  \E k \in 1..Len(items) : items[k].id = chunk.id /\ items[k].content = chunk.content /\ items[k].embedding = chunk.embedding

\* C15: for a registered document whose parsed record has at least one
\* non-empty section, with the store working, add_document returns True and
\* stores one entry for every chunk produced, the zero vector for each chunk
\* whose embedding call failed, whichever chunks those are.
C15_EmbeddingFailureKeepsChunk ==
  (/\ call.op = "add_document"
   /\ InRegistry(call.document_name)
   /\ HasNonEmptySection(call.parsed)
   /\ call.faults = {})
  => /\ result.returned
     /\ \A k \in 1..Len(result.generated) :
          /\ EntryStored(storage[call.document_name].items, result.generated[k])
          /\ k \in call.failing => result.generated[k].embedding = 0

\* C15 for the calls whose generated ids are distinct and new to the
\* collection
C15_KeptWhenIdsFresh ==
  (/\ call.op = "add_document"
   /\ InRegistry(call.document_name)
   /\ call.faults = {}
   /\ result.generated # <<>>
   /\ DistinctIds(result.generated)
   /\ \A k \in 1..Len(result.generated) :
        result.generated[k].id \notin StoredIds(call.before[call.document_name].items))
  => /\ result.returned
     /\ \A k \in 1..Len(result.generated) :
          /\ EntryStored(storage[call.document_name].items, result.generated[k])
          /\ k \in call.failing => result.generated[k].embedding = 0

C15_WitnessFresh ==
  /\ call.op = "add_document"
  /\ call.failing # {}
  /\ Len(result.generated) = 2
  /\ result.returned
  /\ Len(storage[call.document_name].items) = 2

\* C16: whenever add_document returns False, the chunks of every collection
\* are those held before the call.
C16_FailedAddWritesNothing ==
  (call.op = "add_document" /\ ~result.returned)
  => \A d \in DocUniverse : storage[d].items = call.before[d].items

\* a write of two chunks refused by the store, on a collection holding chunks
C16_Witness ==
  /\ call.op = "add_document"
  /\ ~result.returned
  /\ <<call.document_name, "add">> \in call.faults
  /\ Len(result.generated) = 2
  /\ DistinctIds(result.generated)
  /\ call.before[call.document_name].items # <<>>

\* the file is missing, no section has content, the collection cannot be
\* opened
C16_WitnessEarly ==
  /\ call.op = "add_document"
  /\ ~result.returned
  /\ result.generated = <<>>
  /\ InRegistry(call.document_name)
  /\ \/ call.parsed.kind = "missing"
     \/ <<call.document_name, "open">> \in call.faults
     \/ call.parsed.kind = "ok" /\ ~HasNonEmptySection(call.parsed)

\* the collection of d cannot be counted, or cannot be opened and no handle
\* to it was cached before the call
StatsFailed(d) ==
  \/ <<d, "count">> \in call.faults
  \/ <<d, "open">> \in call.faults /\ call.cached[d] = NoHandle

\* C17: get_stats never raises; the entry of a document whose collection
\* cannot be opened or counted reports document_count 0 with an error note,
\* every other entry reports the number of chunks of its collection;
\* total_documents is the sum of the counts of the entries that succeeded
\* and total_collections the number of those entries.
C17_GetStatsDegradesPerEntry ==
  call.op = "get_stats" =>
    /\ ~result.raised
    /\ DOMAIN result.collections = Range(DocNames)
    /\ \A d \in Range(DocNames) :
         IF StatsFailed(d)
         THEN result.collections[d] = [document_count |-> 0, error |-> TRUE]
         ELSE result.collections[d] =
                [document_count |-> Len(storage[d].items), collection_name |-> d]
    /\ result.total_documents =
         SumOver([d \in Range(DocNames) |-> Len(storage[d].items)],
                 { d \in Range(DocNames) : ~StatsFailed(d) })
    /\ result.total_collections = Cardinality({ d \in Range(DocNames) : ~StatsFailed(d) })

\* one collection with chunks fails, another with chunks answers
C17_Witness ==
  /\ call.op = "get_stats"
  /\ \E d, e \in Range(DocNames) :
       /\ StatsFailed(d) /\ storage[d].items # <<>>
       /\ ~StatsFailed(e) /\ result.collections[e].document_count > 0
  /\ result.total_collections = 1

\* C18: a document name that is not in the registry, passed to
\* add_document, reaches the caller as an explicit error, not as the False
\* that every other failure returns.
C18_UnknownDocumentIsAnError ==
  (call.op = "add_document" /\ ~InRegistry(call.document_name)) => result.raised

----------------------------------------------------------------------------
(* Claims about batch processing, checked under SpecBatch.                  *)

\* the PDF yields a page with text
HasUsableText(pdf) ==
  pdf.kind = "ok" /\ \E k \in 1..Len(pdf.pages) : \E i \in 1..Len(pdf.pages[k]) : pdf.pages[k][i] # " "

\* some extraction method returns at least MinTextLength characters of text
FileHasUsableText(file) ==
  \E i \in 1..Len(file.methods) :
     ~file.methods[i].raised /\ Len(strip(file.methods[i].text)) >= MinTextLength

\* the processed file yields chunks whose ids are distinct and new
RecordIngestible(d) ==
  /\ HasNonEmptySection(call.files[d])
  /\ \A k \in 1..Len(call.files[d].sections) :
       /\ call.files[d].sections[k].content # Blank
       /\ \A j \in 1..Len(call.files[d].sections) :
            j # k => call.files[d].sections[j].page # call.files[d].sections[k].page
       /\ <<d, call.files[d].sections[k].page, 0>> \notin StoredIds(call.before[d].items)
  /\ \A k \in {"open", "add"} : <<d, k>> \notin call.faults

\* C19: a batch never raises and reports every document: a document without
\* usable text is reported as failed and nothing is written for it, and a
\* document that can be processed is processed whatever happened to the
\* others.
C19_BatchSkipsFailedDocument ==
  /\ call.op = "process_all_documents" =>
       /\ ~result.raised
       /\ DOMAIN result.results = Range(DocNames)
       /\ \A d \in Range(DocNames) :
            /\ ~HasUsableText(call.pdfs[d]) =>
                 ~result.results[d] /\ result.written[d] = MissingFile
            /\ (HasUsableText(call.pdfs[d]) /\ d \in call.writable) =>
                 /\ result.results[d]
                 /\ result.written[d] = Parsed(extract_text_from_pdf(call.pdfs[d]))
  /\ call.op = "pipeline_process_all_documents" =>
       /\ ~result.raised
       /\ call.dir_exists => Len(result.results) = Len(call.files)
       /\ \A i \in 1..Len(result.results) :
            /\ ~FileHasUsableText(call.files[i]) => result.results[i] = "extraction_failed"
            /\ (FileHasUsableText(call.files[i]) /\ call.files[i].later = "ok") =>
                 result.results[i] = "success"
  /\ call.op = "add_all_documents" =>
       /\ ~result.raised
       /\ DOMAIN result.results = Range(DocNames)
       /\ \A d \in Range(DocNames) :
            /\ ~HasNonEmptySection(call.files[d]) =>
                 ~result.results[d] /\ storage[d].items = call.before[d].items
            /\ RecordIngestible(d) =>
                 /\ result.results[d]
                 /\ Len(storage[d].items) > Len(call.before[d].items)

\* the first document of the batch has no usable text, the second is
\* processed
C19_Witness ==
  /\ call.op = "process_all_documents"
  /\ ~HasUsableText(call.pdfs[DocNames[1]])
  /\ ~result.results[DocNames[1]]
  /\ result.results[DocNames[2]]
  /\ result.written[DocNames[2]].kind = "ok"

C19_WitnessPipeline ==
  /\ call.op = "pipeline_process_all_documents"
  /\ result.results = <<"extraction_failed", "success">>

C19_WitnessAddAll ==
  /\ call.op = "add_all_documents"
  /\ call.files[DocNames[1]] = MissingFile
  /\ ~result.results[DocNames[1]]
  /\ result.results[DocNames[2]]

----------------------------------------------------------------------------
(* Claims about the read-only operations, checked under SpecReadOnly.       *)

\* C25: searching is read-only: no step of search, get_context,
\* answer_question or get_stats changes the chunks (ids, texts, embeddings,
\* page and chunk index) stored in any collection.
C25_SearchIsReadOnly ==
  [][\A d \in DocUniverse : storage'[d].items = storage[d].items]_vars

\* the same as a property of the states: every collection holds what the
\* earlier runs left in it, or nothing where they left no collection
C25_ChunksAsLeft ==
  \A d \in DocUniverse : storage[d].items \in {<<>>, Corpus(d)}

\* a call that read stored chunks and one that had to create a collection
C25_Witness ==
  /\ call.op \in {"search", "get_context", "answer_question", "get_stats"}
  /\ \E d, e \in Range(DocNames) :
       /\ storage[d].born = "earlier" /\ storage[d].items # <<>> /\ collections[d] # NoHandle
       /\ storage[e].born = "now"


ThreadDone(t) == call.op = "search" /\ call.threads[t].pc \in {"queried", "skipped"}

\* two threads that asked for the same registered document, which was
\* neither cached nor persisted when they started, and have both finished
C28_BothNeededNew(d) ==
  /\ call.op = "search"
  /\ InRegistry(d)
  /\ ~call.before[d].exists
  /\ \A t \in Threads : call.threads[t].document_name = d /\ ThreadDone(t)

\* C28: when two parallel searches both need a collection that is neither
\* cached nor persisted, both obtain a handle to the same collection,
\* neither skips the document, and the collection is created exactly once
C28_ParallelCallsShareCollection ==
  \A d \in DocUniverse :
     C28_BothNeededNew(d) =>
        /\ \A t \in Threads : call.threads[t].pc = "queried"
        /\ call.threads[1].handle = call.threads[2].handle
        /\ result.created[d] = 1

\* C28, the part that holds: the collection is created exactly once and
\* every thread that obtained a handle obtained that collection's
C28_CreatedOnceAndHandlesAgree ==
  \A d \in DocUniverse :
     C28_BothNeededNew(d) =>
        /\ result.created[d] = 1
        /\ \A t \in Threads :
              call.threads[t].pc = "queried" => call.threads[t].handle = storage[d].uid

\* C28: two threads for the same new collection, one of them skipped
C28_WitnessSkipped ==
  \E d \in DocUniverse :
     /\ C28_BothNeededNew(d)
     /\ \E t \in Threads : call.threads[t].pc = "skipped"
====
